---- MODULE Spec2Model ----
(***************************************************************************)
(* Scoring and signal synthesis of the Solana trading toolkit:             *)
(*   scripts/analyze_contract.py          risk sub-scores, overall risk    *)
(*   scripts/smart_money_momentum_agent.py  sub-scores, combined signal    *)
(*   scripts/scalp_strategy.py            position size, trade levels      *)
(*                                                                         *)
(* Numbers.  Python floats that the code only compares or copies are       *)
(* integers here.  A quotient (volume / liquidity, a mean, a percentage)   *)
(* is an exact fraction <<n, d>> with d > 0.  The two weighted sums of     *)
(* the code multiply by decimal weights (0.15, 0.35, ...) that a double    *)
(* does not hold exactly: the double the code computes can lie a few ulps  *)
(* off the exact sum, which changes a truncation or a >= test only when    *)
(* the exact sum lies exactly on an integer or on a threshold.  There the  *)
(* model allows both outcomes (IntOfWeighted, CombinedBelow).              *)
(***************************************************************************)
EXTENDS Integers, Sequences, FiniteSets, TLC

VARIABLES
    call,                \* the method that was called
    pc,                  \* the step it is at
    contract_address,    \* analyze(contract_address)
    metadata,            \* TokenMetadata
    chart,               \* ChartMetrics
    holders,             \* dict returned by get_holder_distribution
    age,                 \* dict returned by get_contract_age
    red_flags,           \* list returned by check_scam_patterns
    risk_factors,        \* RiskFactors
    overall_risk_score,  \* calculate_overall_risk()[0]
    risk_rating,         \* calculate_overall_risk()[1]
    timestamp,           \* AnalysisResult.timestamp
    supply_result,       \* the answer to getTokenSupply in fetch_token_holders
    raw_holders,         \* list returned by fetch_token_holders
    price_usd,           \* the price argument of the three analyses
    dex_data,            \* the answer of DexScreener's token-pairs endpoint
    tasks,               \* where each coroutine of analyze_token's gather is
    in_flight,           \* the requests sent and not yet answered
    holder_metrics,      \* HolderMetrics
    volume_momentum,     \* VolumeMomentum
    momentum_indicators, \* MomentumIndicators
    detected_patterns,   \* list of ChartPattern
    smart_money_score,   \* calculate_smart_money_score()
    momentum_score,      \* calculate_momentum_score()
    pattern_score,       \* calculate_pattern_score()
    combined_score,      \* generate_signal()[2]
    signal_type,         \* generate_signal()[0]
    confidence,          \* generate_signal()[1]
    risk_score,          \* the risk_score argument of the scalp functions
    position_size_pct,   \* position_size_by_risk()
    contract,            \* the stored analysis (a dict) the scalp functions read
    setup_type,          \* determine_setup_type(), or the setup_type argument
    levels,              \* calculate_entry_exit()
    hold_time,           \* max_hold_time()
    setup_vol_liq_ratio, \* calculate_vol_liq_ratio()
    signals_cache,       \* _signals_cache of api/signals.py
    cache_time,          \* _cache_time of api/signals.py
    wall_clock,          \* time.time()
    request,             \* the query parameters of the GET request
    response,            \* the JSON body the handler writes
    pending_signals,     \* TradeExecutor.pending_signals
    executed_trades,     \* TradeExecutor.executed_trades (and executed_trades.json)
    trade_history        \* the list in trade_history.json

riskVars == <<contract_address, metadata, chart, holders, age, red_flags,
              risk_factors, overall_risk_score, risk_rating, timestamp>>

fetchVars == <<supply_result, raw_holders, price_usd, dex_data, tasks, in_flight>>

signalVars == <<holder_metrics, volume_momentum, momentum_indicators,
                detected_patterns, smart_money_score, momentum_score,
                pattern_score, combined_score, signal_type, confidence,
                fetchVars>>

scalpVars == <<risk_score, position_size_pct, contract, setup_type, levels,
               hold_time, setup_vol_liq_ratio>>

apiVars == <<signals_cache, cache_time, wall_clock, request, response>>

tradeVars == <<pending_signals, executed_trades, trade_history>>

serviceVars == <<apiVars, tradeVars>>

vars == <<call, pc, riskVars, signalVars, scalpVars, serviceVars>>

----------------------------------------------------------------------------
(* Python values *)

\* None
None == "None"

\* bool(x) of an Optional[str]
Truthy(x) == x # None /\ x # ""

\* {}
EmptyDict == [k \in {} |-> 0]

\* d.get(k, default)
DictGet(d, k, default) == IF k \in DOMAIN d THEN d[k] ELSE default

\* a variable that the running call has not assigned yet
Unset == "unset"

Min(a, b) == IF a <= b THEN a ELSE b

Max(a, b) == IF a >= b THEN a ELSE b

Abs(x) == IF x < 0 THEN -x ELSE x

RECURSIVE Gcd(_, _)
Gcd(a, b) == IF b = 0 THEN a ELSE Gcd(b, a % b)

(* exact fractions <<n, d>>, d > 0, in lowest terms *)
Frac(n, d) == LET g == Gcd(Abs(n), d) IN <<n \div g, d \div g>>

FromInt(n) == <<n, 1>>

FLt(a, b) ==
    LET g == Gcd(a[2], b[2]) IN a[1] * (b[2] \div g) < b[1] * (a[2] \div g)

FGt(a, b) == FLt(b, a)

FLe(a, b) == ~FLt(b, a)

FGe(a, b) == ~FLt(a, b)

FEq(a, b) ==
    LET g == Gcd(a[2], b[2]) IN a[1] * (b[2] \div g) = b[1] * (a[2] \div g)

FAdd(a, b) == Frac(a[1] * b[2] + b[1] * a[2], a[2] * b[2])

FSub(a, b) == Frac(a[1] * b[2] - b[1] * a[2], a[2] * b[2])

\* k * a and a / k for an integer k (k > 0 in FDiv)
FMul(k, a) == Frac(k * a[1], a[2])

FDiv(a, k) == Frac(a[1], a[2] * k)

\* price * 1.015 and the like
Times(price, thousandths) == FDiv(FMul(thousandths, price), 1000)

FMin(a, b) == IF FLe(a, b) THEN a ELSE b

FMax(a, b) == IF FGe(a, b) THEN a ELSE b

----------------------------------------------------------------------------
(* scripts/analyze_contract.py: fetching the snapshot *)

\* TokenMetadata(...) built from the "info" dict of getAccountInfo
TokenMetadataOf(info) ==
    [name |-> "Unknown",
     symbol |-> "UNKNOWN",
     mint_authority |-> DictGet(info, "mintAuthority", None),
     freeze_authority |-> DictGet(info, "freezeAuthority", None),
     supply |-> DictGet(info, "supply", 0),
     decimals |-> DictGet(info, "decimals", 0),
     is_initialized |-> DictGet(info, "isInitialized", FALSE)]

\* the ChartMetrics returned when DexScreener has no data for the token
NoMarketChart ==
    [current_price |-> 0, price_change_24h |-> 0, market_cap |-> 0,
     liquidity_usd |-> 0, fdv |-> 0, pairs_count |-> 0, volume_24h |-> 0,
     top_pair_address |-> None, dex_platform |-> None,
     timeframes |-> EmptyDict]

\* sorted(data, key=liquidity, reverse=True)[0]: the first pair of the
\* highest liquidity (the sort is stable)
TopPair(data) ==
    LET best == CHOOSE i \in 1..Len(data) :
            /\ \A j \in 1..Len(data) : data[j].liquidity_usd <= data[i].liquidity_usd
            /\ \A j \in 1..(i - 1) : data[j].liquidity_usd < data[i].liquidity_usd
    IN data[best]

\* the keys of the volume / priceChange dicts of a pair, by timeframe name
TimeframeKey == [tf \in {"5m", "15m", "30m", "1h", "24h"} |->
    CASE tf = "5m" -> "m5" [] tf = "15m" -> "m15" [] tf = "30m" -> "m30"
      [] tf = "1h" -> "h1" [] tf = "24h" -> "h24"]

\* the VolumeAnalysis entries built by _analyze_volume_patterns
RawTimeframes(pair_data, liquidity_usd) ==
    [tf \in DOMAIN TimeframeKey |->
        [timeframe |-> tf,
         total_volume |-> DictGet(pair_data.volume, TimeframeKey[tf], 0),
         volume_spikes |-> 0,
         suspicious_volume_pattern |-> FALSE,
         volume_trend |-> "unknown",
         liquidity_depth |-> liquidity_usd,
         price_volatility |-> Abs(DictGet(pair_data.priceChange, TimeframeKey[tf], 0))]]

\* _detect_volume_anomalies, first check: 5m volume * 12 / 1h volume > 3
SpikeIn5m(tfs) ==
    /\ "5m" \in DOMAIN tfs /\ "1h" \in DOMAIN tfs
    /\ tfs["1h"].total_volume > 0
    /\ FGt(Frac(tfs["5m"].total_volume * 12, tfs["1h"].total_volume), FromInt(3))

\* second check: 15m volume * 2 < 30m volume * 0.5
DecliningSharply(tfs) ==
    /\ "15m" \in DOMAIN tfs /\ "30m" \in DOMAIN tfs
    /\ tfs["30m"].total_volume > 0
    /\ tfs["15m"].total_volume * 2 * 2 < tfs["30m"].total_volume

\* third check: total_volume > 10000 and price_volatility < 0.5
WashTrading(tf) == tf.total_volume > 10000 /\ 2 * tf.price_volatility < 1

DetectVolumeAnomalies(tfs) ==
    [name \in DOMAIN tfs |->
        [tfs[name] EXCEPT
            !.volume_spikes =
                IF name = "5m" /\ SpikeIn5m(tfs) THEN 1 ELSE @,
            !.volume_trend =
                IF name = "15m" /\ DecliningSharply(tfs) THEN "declining_sharply" ELSE @,
            !.suspicious_volume_pattern =
                (name = "5m" /\ SpikeIn5m(tfs)) \/ WashTrading(tfs[name])]]

\* get_dexscreener_data for a non-empty list of pairs; history is the answer
\* of the pair request, not ok when that request fails or has no "pairs"
ChartMetricsOf(data, history) ==
    LET top == TopPair(data)
        base == [current_price |-> top.priceUsd,
                 price_change_24h |-> top.priceChange_h24,
                 market_cap |-> top.fdv,
                 liquidity_usd |-> top.liquidity_usd,
                 fdv |-> top.fdv,
                 pairs_count |-> Len(data),
                 volume_24h |-> top.volume_h24,
                 top_pair_address |-> top.pairAddress,
                 dex_platform |-> top.dexId,
                 timeframes |-> EmptyDict]
    IN IF Truthy(top.pairAddress) /\ history.ok
       THEN [base EXCEPT !.timeframes =
                DetectVolumeAnomalies(RawTimeframes(history, top.liquidity_usd))]
       ELSE base

\* sum(int(a["amount"]) for a in accounts[:n])
RECURSIVE SumAmounts(_, _)
SumAmounts(accounts, n) ==
    IF n = 0 \/ accounts = <<>> THEN 0
    ELSE Head(accounts) + SumAmounts(Tail(accounts), n - 1)

\* accounts[:10]
TopHolderSlice == 10

\* get_holder_distribution taking "no accounts" for "nothing concentrated"
HolderDistributionZero(accounts) ==
    LET total_supply == SumAmounts(accounts, Len(accounts))
    IN IF accounts = <<>> \/ total_supply = 0
       THEN [top_10_concentration |-> FromInt(0), holder_count |-> 0]
       ELSE [top_10_concentration |->
                Frac(SumAmounts(accounts, TopHolderSlice) * 100, total_supply),
             holder_count |-> Len(accounts)]

\* get_holder_distribution on the "value" list of getTokenLargestAccounts
HolderDistribution(accounts) ==
    LET total_supply == SumAmounts(accounts, Len(accounts))
    IN IF accounts = <<>> \/ total_supply = 0
       THEN [top_10_concentration |-> FromInt(100), holder_count |-> 0]
       ELSE [top_10_concentration |->
                Frac(SumAmounts(accounts, TopHolderSlice) * 100, total_supply),
             holder_count |-> Len(accounts)]

\* seconds in a day
DaySeconds == 86400

\* datetime.isoformat(): the date and the time of day of a timestamp
IsoFormat(seconds) ==
    [date |-> seconds \div DaySeconds, time |-> seconds % DaySeconds]

\* the timestamp an ISO string stands for
EpochOf(iso) == iso.date * DaySeconds + iso.time

\* get_contract_age: sigs is the number of signatures returned, block_time
\* the blockTime of the first one (0 when missing), now the wall clock
ContractAge(sigs, block_time, now) ==
    IF sigs = 0 \/ block_time = 0
    THEN [age_days |-> FromInt(0), is_new |-> TRUE]
    ELSE [age_days |-> Frac(now - block_time, DaySeconds),
          is_new |-> FLt(Frac(now - block_time, DaySeconds), FromInt(7)),
          first_tx |-> IsoFormat(block_time)]

----------------------------------------------------------------------------
(* scripts/analyze_contract.py: scoring *)

\* known_scam_patterns["blacklisted_addresses"]
BlacklistedAddresses == {"ScamMint"}

\* check_scam_patterns: the red flags, in the order the code appends them
ScamPatternFlags(md, hd, address, ch) ==
    LET conc == DictGet(hd, "top_10_concentration", FromInt(0))
        spiking == {name \in DOMAIN ch.timeframes :
                        /\ ch.timeframes[name].suspicious_volume_pattern
                        /\ ch.timeframes[name].volume_spikes > 0}
        Spikes[S \in SUBSET spiking] ==
            IF S = {} THEN <<>>
            ELSE LET name == CHOOSE x \in S : TRUE
                 IN Append(Spikes[S \ {name}], "VOLUME_SPIKE")
    IN    (IF address \in BlacklistedAddresses THEN <<"CONTRACT_IN_BLACKLIST">> ELSE <<>>)
       \o (IF Truthy(md.mint_authority) THEN <<"MINT_AUTHORITY_ACTIVE">> ELSE <<>>)
       \o (IF Truthy(md.freeze_authority) THEN <<"FREEZE_AUTHORITY_ACTIVE">> ELSE <<>>)
       \o (IF FGt(conc, FromInt(80)) THEN <<"EXTREME_WHALE_CONCENTRATION">>
           ELSE IF FGt(conc, FromInt(50)) THEN <<"HIGH_WHALE_CONCENTRATION">>
           ELSE <<>>)
       \o (IF ch.liquidity_usd < 10000 THEN <<"VERY_LOW_LIQUIDITY">>
           ELSE IF ch.liquidity_usd < 50000 THEN <<"LOW_LIQUIDITY">>
           ELSE <<>>)
       \o Spikes[spiking]
       \o (IF md.name \in {"test", "fake", "scam"} THEN <<"SUSPICIOUS_TOKEN_NAME">> ELSE <<>>)

\* the mint authority test the wrong way round
MintAuthorityRiskInverted(md) == IF Truthy(md.mint_authority) THEN 0 ELSE 100

MintAuthorityRisk(md) == IF Truthy(md.mint_authority) THEN 100 ELSE 0

FreezeAuthorityRisk(md) == IF Truthy(md.freeze_authority) THEN 80 ELSE 0

LiquidityRisk(ch) ==
    IF ch.liquidity_usd > 1000000 THEN 10
    ELSE IF ch.liquidity_usd > 500000 THEN 20
    ELSE IF ch.liquidity_usd > 100000 THEN 40
    ELSE IF ch.liquidity_usd > 50000 THEN 60
    ELSE IF ch.liquidity_usd > 10000 THEN 80
    ELSE 100

HolderConcentrationRisk(hd) ==
    LET concentration == DictGet(hd, "top_10_concentration", FromInt(0))
    IN IF FGt(concentration, FromInt(90)) THEN 100
       ELSE IF FGt(concentration, FromInt(70)) THEN 80
       ELSE IF FGt(concentration, FromInt(50)) THEN 60
       ELSE IF FGt(concentration, FromInt(30)) THEN 40
       ELSE 20

ContractAgeRisk(ag) ==
    LET age_days == DictGet(ag, "age_days", FromInt(0))
    IN IF FLt(age_days, FromInt(1)) THEN 90
       ELSE IF FLt(age_days, FromInt(7)) THEN 70
       ELSE IF FLt(age_days, FromInt(30)) THEN 50
       ELSE IF FLt(age_days, FromInt(90)) THEN 30
       ELSE 10

VerificationRisk(md) == IF ~md.is_initialized THEN 50 ELSE 0

\* scam_risk without the cap at 100
ScamPatternRiskUncapped(flags) == Len(flags) * 10

ScamPatternRisk(flags) == Min(Len(flags) * 10, 100)

VolumeRisk(ch) ==
    IF ch.liquidity_usd > 0
    THEN LET vol_liq_ratio == Frac(ch.volume_24h, ch.liquidity_usd)
         IN IF FGt(vol_liq_ratio, FromInt(10)) THEN 80
            ELSE IF FGt(vol_liq_ratio, FromInt(5)) THEN 60
            ELSE IF FLt(vol_liq_ratio, Frac(1, 10)) THEN 70
            ELSE 30
    ELSE 50

VolatilityRisk(ch) ==
    IF Abs(ch.price_change_24h) > 100 THEN 90
    ELSE IF Abs(ch.price_change_24h) > 50 THEN 70
    ELSE IF Abs(ch.price_change_24h) > 20 THEN 50
    ELSE 30

\* the number of timeframes flagged with a suspicious volume pattern
SuspiciousCount(tfs) ==
    Cardinality({name \in DOMAIN tfs : tfs[name].suspicious_volume_pattern})

PriceManipulationRisk(ch) == Min(15 * SuspiciousCount(ch.timeframes), 100)

\* calculate_risk_scores
RiskFactorsOf(md, hd, ag, flags, ch) ==
    [mint_authority_risk |-> MintAuthorityRisk(md),
     freeze_authority_risk |-> FreezeAuthorityRisk(md),
     liquidity_risk |-> LiquidityRisk(ch),
     holder_concentration_risk |-> HolderConcentrationRisk(hd),
     contract_age_risk |-> ContractAgeRisk(ag),
     verification_risk |-> VerificationRisk(md),
     scam_pattern_risk |-> ScamPatternRisk(flags),
     volume_risk |-> VolumeRisk(ch),
     volatility_risk |-> VolatilityRisk(ch),
     price_manipulation_risk |-> PriceManipulationRisk(ch)]

\* the weights of calculate_overall_risk, in hundredths
RiskWeights ==
    [mint_authority_risk |-> 15, freeze_authority_risk |-> 8,
     liquidity_risk |-> 15, holder_concentration_risk |-> 12,
     contract_age_risk |-> 8, verification_risk |-> 7,
     scam_pattern_risk |-> 12, volume_risk |-> 10,
     volatility_risk |-> 8, price_manipulation_risk |-> 5]

\* weighted_score with the verification term counted the wrong way round
WeightedScoreInverted(factors) ==
      factors.mint_authority_risk * RiskWeights.mint_authority_risk
    + factors.freeze_authority_risk * RiskWeights.freeze_authority_risk
    + factors.liquidity_risk * RiskWeights.liquidity_risk
    + factors.holder_concentration_risk * RiskWeights.holder_concentration_risk
    + factors.contract_age_risk * RiskWeights.contract_age_risk
    + (100 - factors.verification_risk) * RiskWeights.verification_risk
    + factors.scam_pattern_risk * RiskWeights.scam_pattern_risk
    + factors.volume_risk * RiskWeights.volume_risk
    + factors.volatility_risk * RiskWeights.volatility_risk
    + factors.price_manipulation_risk * RiskWeights.price_manipulation_risk

\* weighted_score, in hundredths
WeightedScore(factors) ==
      factors.mint_authority_risk * RiskWeights.mint_authority_risk
    + factors.freeze_authority_risk * RiskWeights.freeze_authority_risk
    + factors.liquidity_risk * RiskWeights.liquidity_risk
    + factors.holder_concentration_risk * RiskWeights.holder_concentration_risk
    + factors.contract_age_risk * RiskWeights.contract_age_risk
    + factors.verification_risk * RiskWeights.verification_risk
    + factors.scam_pattern_risk * RiskWeights.scam_pattern_risk
    + factors.volume_risk * RiskWeights.volume_risk
    + factors.volatility_risk * RiskWeights.volatility_risk
    + factors.price_manipulation_risk * RiskWeights.price_manipulation_risk

\* int(weighted_score): the truncation of the double.  When the exact sum is
\* a whole number the double may lie just below it (0.15 * 10 + 0.12 * 20 +
\* ... = 23.999999999999996), and int() then returns one less.
IntOfWeighted(hundredths) ==
    IF hundredths % 100 = 0 /\ hundredths > 0
    THEN {hundredths \div 100 - 1, hundredths \div 100}
    ELSE {hundredths \div 100}

\* the rating with strict comparisons
RiskRatingStrict(score) ==
    IF score < 20 THEN "LOW"
    ELSE IF score < 40 THEN "MEDIUM"
    ELSE IF score < 60 THEN "HIGH"
    ELSE "EXTREME"

\* the rating of calculate_overall_risk
RiskRating(score) ==
    IF score <= 20 THEN "LOW"
    ELSE IF score <= 40 THEN "MEDIUM"
    ELSE IF score <= 60 THEN "HIGH"
    ELSE "EXTREME"

\* the scores calculate_overall_risk can return for these factors
OverallRiskScores(factors) == IntOfWeighted(WeightedScore(factors))

----------------------------------------------------------------------------
(* the answers of the RPC node and of DexScreener that the model draws from *)

MaxPairs == 2

MaxAccounts == 11

MaxFlags == 11

MaxTimeframes == 7

Addresses == {"Mint1", "ScamMint"}

Authorities == {None, "Auth1"}

\* getAccountInfo: "value" is null for an address that holds no account;
\* a failed call gives {} and so an empty "info"
AccountInfoResponses ==
    {[value_is_null |-> TRUE, info |-> EmptyDict],
     [value_is_null |-> FALSE, info |-> EmptyDict]}
    \cup {[value_is_null |-> FALSE,
           info |-> [mintAuthority |-> m, freezeAuthority |-> f, supply |-> 1000,
                     decimals |-> 6, isInitialized |-> TRUE]] :
            m \in Authorities, f \in Authorities}

DexPairs ==
    [liquidity_usd : {5000, 120000}, volume_h24 : {900000}, priceUsd : {1},
     priceChange_h24 : {-60, 3}, fdv : {1000000},
     pairAddress : {None, "Pair1"}, dexId : {"raydium"}]

\* /token-pairs: <<>> when the call fails or finds nothing
DexResponses == UNION {[1..n -> DexPairs] : n \in 0..MaxPairs}

\* /latest/dex/pairs: the volume and priceChange dicts of the pair; not ok
\* when the call fails or the answer has no "pairs"
PairHistories ==
    {[ok |-> FALSE, volume |-> EmptyDict, priceChange |-> EmptyDict],
     [ok |-> TRUE, volume |-> EmptyDict, priceChange |-> EmptyDict],
     [ok |-> TRUE, volume |-> [m5 |-> 5000, h1 |-> 10000, h24 |-> 9000],
      priceChange |-> [m5 |-> 4, h1 |-> -7, h24 |-> 3]],
     [ok |-> TRUE,
      volume |-> [m5 |-> 20, m15 |-> 100, m30 |-> 1000, h1 |-> 40000, h24 |-> 900000],
      priceChange |-> [m5 |-> 0, h1 |-> 0, h24 |-> -60]]}

Rep(x, n) == [i \in 1..n |-> x]

\* getTokenLargestAccounts: the amounts, largest first (at most one large
\* account, then small ones)
AccountLists ==
    {l \in {Rep(9, a) \o Rep(1, b) : a \in 0..1, b \in 0..MaxAccounts} :
        Len(l) <= MaxAccounts}

\* getSignaturesForAddress / getTransaction: the number of signatures, the
\* blockTime of the first (0: missing), whether the transaction is null
FirstBlockTime == {1000000}

TransactionResponses ==
    {[sigs |-> 0, tx_is_null |-> FALSE, block_time |-> 0],
     [sigs |-> 1, tx_is_null |-> TRUE, block_time |-> 0],
     [sigs |-> 1, tx_is_null |-> FALSE, block_time |-> 0]}
    \cup {[sigs |-> 1, tx_is_null |-> FALSE, block_time |-> t] : t \in FirstBlockTime}

\* datetime.now().timestamp()
Clock == {t + 43200 : t \in FirstBlockTime} \cup {t + 100 * DaySeconds : t \in FirstBlockTime}

----------------------------------------------------------------------------
(* the arguments of a direct call of calculate_risk_scores or of           *)
(* calculate_overall_risk.  Each argument has a full set of values, with    *)
(* both sides of every threshold the code tests, and a two-value set.  A   *)
(* call draws one argument (the focus) from its full set and the others     *)
(* from their two-value sets.                                               *)

Pick(focus, name, full, few) == IF focus = name THEN full ELSE few

MetadataValues ==
    {TokenMetadataOf([mintAuthority |-> m, freezeAuthority |-> f, isInitialized |-> b]) :
        m \in Authorities, f \in Authorities, b \in BOOLEAN}

LiquidityValues ==
    {0, 5000, 10000, 10001, 50000, 50001, 100000, 100001,
     500000, 500001, 1000000, 1000001}

VolumeValues ==
    {0, 999, 1000, 25000, 50000, 50001, 100000, 100001, 12000000}

PriceChangeValues ==
    {-101, -100, -51, -50, -21, -20, 0, 20, 21, 50, 51, 100, 101}

HolderDicts ==
    {EmptyDict} \cup
    {[top_10_concentration |-> FromInt(c), holder_count |-> 20] :
        c \in {0, 30, 31, 50, 51, 70, 71, 90, 91, 100}}

AgeDicts ==
    {EmptyDict} \cup
    {[age_days |-> a, is_new |-> FLt(a, FromInt(7))] :
        a \in {FromInt(d) : d \in {0, 1, 6, 7, 29, 30, 89, 90}} \cup {Frac(1, 2)}}

FlagLists == {Rep("RED_FLAG", n) : n \in 0..MaxFlags}

TimeframeNames == <<"5m", "15m", "30m", "1h", "24h", "7d", "30d", "90d", "1y">>

\* a timeframes dict of n entries, the first k of them suspicious
TimeframesDict(n, k) ==
    [name \in {TimeframeNames[i] : i \in 1..n} |->
        LET i == CHOOSE j \in 1..n : TimeframeNames[j] = name
        IN [timeframe |-> name, total_volume |-> 20000, volume_spikes |-> 0,
            suspicious_volume_pattern |-> i <= k, volume_trend |-> "unknown",
            liquidity_depth |-> 0, price_volatility |-> IF i <= k THEN 0 ELSE 5]]

TimeframesDicts ==
    {TimeframesDict(n, k) : n \in 0..MaxTimeframes, k \in 0..MaxTimeframes} 

SubScoreValues == {0, 1, 33, 50, 99, 100}

RiskFactorNames == DOMAIN RiskWeights

----------------------------------------------------------------------------
(* SolanaContractAnalyzer: analyze(), and direct calls of its two scorers *)

\* analyze(contract_address) is called
InitAnalyze ==
    /\ call = "analyze"
    /\ pc = "metadata"
    /\ contract_address \in Addresses
    /\ metadata = Unset /\ chart = Unset /\ holders = Unset /\ age = Unset
    /\ red_flags = Unset /\ risk_factors = Unset
    /\ overall_risk_score = Unset /\ risk_rating = Unset

\* calculate_risk_scores(metadata, holders, age, red_flags, chart) is called
InitRiskScores ==
    \E focus \in {"metadata", "liquidity", "volume", "price_change", "holders",
                  "age", "red_flags", "timeframes", "ratio"} :
        /\ call = "calculate_risk_scores"
        /\ pc = "scores"
        /\ contract_address = Unset
        /\ metadata \in Pick(focus, "metadata", MetadataValues,
                             {TokenMetadataOf(EmptyDict),
                              TokenMetadataOf([mintAuthority |-> "Auth1",
                                               freezeAuthority |-> "Auth1",
                                               isInitialized |-> TRUE])})
        /\ \E l \in IF focus = "ratio" THEN LiquidityValues
                     ELSE Pick(focus, "liquidity", LiquidityValues, {0, 10000}),
              v \in IF focus = "ratio" THEN VolumeValues
                     ELSE Pick(focus, "volume", VolumeValues, {0, 100001}),
              p \in Pick(focus, "price_change", PriceChangeValues, {0, 101}),
              t \in Pick(focus, "timeframes", TimeframesDicts,
                         {TimeframesDict(0, 0), TimeframesDict(5, 5)}) :
              chart = [NoMarketChart EXCEPT !.liquidity_usd = l, !.volume_24h = v,
                                            !.price_change_24h = p, !.timeframes = t]
        /\ holders \in Pick(focus, "holders", HolderDicts,
                            {EmptyDict,
                             [top_10_concentration |-> FromInt(100), holder_count |-> 20]})
        /\ age \in Pick(focus, "age", AgeDicts,
                        {EmptyDict, [age_days |-> FromInt(90), is_new |-> FALSE]})
        /\ red_flags \in Pick(focus, "red_flags", FlagLists,
                              {Rep("RED_FLAG", 0), Rep("RED_FLAG", MaxFlags)})
        /\ risk_factors = Unset
        /\ overall_risk_score = Unset /\ risk_rating = Unset

\* calculate_risk_scores is called on a token with both authorities set,
\* liquidity of $5,000 and 95% of the supply in the top ten accounts
InitRugProfile ==
    /\ call = "calculate_risk_scores"
    /\ pc = "scores"
    /\ contract_address = Unset
    /\ \E b \in BOOLEAN :
          metadata = TokenMetadataOf([mintAuthority |-> "Auth1",
                                      freezeAuthority |-> "Auth1",
                                      isInitialized |-> b])
    /\ \E v \in {0, 499, 500, 25000, 25001, 50000, 50001, 12000000},
          p \in PriceChangeValues,
          t \in {TimeframesDict(0, 0), TimeframesDict(5, 5),
                 TimeframesDict(MaxTimeframes, MaxTimeframes)} :
          chart = [NoMarketChart EXCEPT !.liquidity_usd = 5000, !.volume_24h = v,
                                        !.price_change_24h = p, !.timeframes = t]
    /\ holders = [top_10_concentration |-> FromInt(95), holder_count |-> 20]
    /\ age \in {EmptyDict, [age_days |-> FromInt(0), is_new |-> TRUE],
                 [age_days |-> FromInt(90), is_new |-> FALSE]}
    /\ red_flags \in {Rep("RED_FLAG", 0), Rep("RED_FLAG", 1), Rep("RED_FLAG", MaxFlags)}
    /\ risk_factors = Unset
    /\ overall_risk_score = Unset /\ risk_rating = Unset

\* calculate_overall_risk(factors) is called
InitOverallRisk ==
    \E focus \in RiskFactorNames, v \in SubScoreValues,
       base \in [RiskFactorNames -> {0, 100}] :
        /\ call = "calculate_overall_risk"
        /\ pc = "overall"
        /\ contract_address = Unset
        /\ metadata = Unset /\ chart = Unset /\ holders = Unset /\ age = Unset
        /\ red_flags = Unset
        /\ risk_factors = [base EXCEPT ![focus] = v]
        /\ overall_risk_score = Unset /\ risk_rating = Unset

\* the variables of the signal agent and of the scalp generator, not in use
IdleFetch ==
    /\ supply_result = Unset
    /\ raw_holders = Unset /\ price_usd = Unset /\ dex_data = Unset
    /\ tasks = Unset /\ in_flight = Unset

IdleSignal ==
    /\ holder_metrics = Unset /\ volume_momentum = Unset
    /\ momentum_indicators = Unset /\ detected_patterns = Unset
    /\ smart_money_score = Unset /\ momentum_score = Unset
    /\ pattern_score = Unset /\ combined_score = Unset
    /\ signal_type = Unset /\ confidence = Unset
    /\ IdleFetch

IdleScalp ==
    /\ risk_score = Unset /\ position_size_pct = Unset
    /\ contract = Unset /\ setup_type = Unset /\ levels = Unset
    /\ hold_time = Unset /\ setup_vol_liq_ratio = Unset

\* the variables of the signals endpoint and of the trade executor, not in use
IdleApi ==
    /\ signals_cache = Unset /\ cache_time = Unset /\ wall_clock = Unset
    /\ request = Unset /\ response = Unset

IdleTrades ==
    /\ pending_signals = Unset /\ executed_trades = Unset
    /\ trade_history = Unset

InitRisk ==
    /\ InitAnalyze \/ InitRiskScores \/ InitRugProfile \/ InitOverallRisk
    /\ timestamp = Unset
    /\ IdleSignal /\ IdleScalp
    /\ IdleApi /\ IdleTrades

\* metadata = await metadata_task.  None.get raises AttributeError when the
\* "value" of the answer is null
GetTokenMetadata ==
    /\ pc = "metadata"
    /\ \E resp \in AccountInfoResponses :
          IF resp.value_is_null
          THEN /\ pc' = "raised"
               /\ UNCHANGED metadata
          ELSE /\ metadata' = TokenMetadataOf(resp.info)
               /\ pc' = "chart"
    /\ UNCHANGED <<call, contract_address, chart, holders, age, red_flags,
                   risk_factors, overall_risk_score, risk_rating, timestamp,
                   signalVars, scalpVars, serviceVars>>

\* chart = await chart_task
GetDexscreenerData ==
    /\ pc = "chart"
    /\ \E data \in DexResponses, history \in PairHistories :
          chart' = IF Len(data) = 0 THEN NoMarketChart
                   ELSE ChartMetricsOf(data, history)
    /\ pc' = "holders"
    /\ UNCHANGED <<call, contract_address, metadata, holders, age, red_flags,
                   risk_factors, overall_risk_score, risk_rating, timestamp,
                   signalVars, scalpVars, serviceVars>>

\* holders = await holders_task
GetHolderDistribution ==
    /\ pc = "holders"
    /\ \E accounts \in AccountLists : holders' = HolderDistribution(accounts)
    /\ pc' = "age"
    /\ UNCHANGED <<call, contract_address, metadata, chart, age, red_flags,
                   risk_factors, overall_risk_score, risk_rating, timestamp,
                   signalVars, scalpVars, serviceVars>>

\* age = await age_task
GetContractAge ==
    /\ pc = "age"
    /\ \E resp \in TransactionResponses, now \in Clock :
          IF resp.tx_is_null
          THEN /\ pc' = "raised"
               /\ UNCHANGED age
          ELSE /\ age' = ContractAge(resp.sigs, resp.block_time, now)
               /\ pc' = "check"
    /\ UNCHANGED <<call, contract_address, metadata, chart, holders, red_flags,
                   risk_factors, overall_risk_score, risk_rating, timestamp,
                   signalVars, scalpVars, serviceVars>>

\* red_flags = self.check_scam_patterns(metadata, holders, contract_address, chart)
CheckScamPatterns ==
    /\ pc = "check"
    /\ red_flags' = ScamPatternFlags(metadata, holders, contract_address, chart)
    /\ pc' = "scores"
    /\ UNCHANGED <<call, contract_address, metadata, chart, holders, age,
                   risk_factors, overall_risk_score, risk_rating, timestamp,
                   signalVars, scalpVars, serviceVars>>

\* risk_factors = self.calculate_risk_scores(metadata, holders, age, red_flags, chart)
CalculateRiskScores ==
    /\ pc = "scores"
    /\ risk_factors' = RiskFactorsOf(metadata, holders, age, red_flags, chart)
    /\ pc' = "overall"
    /\ UNCHANGED <<call, contract_address, metadata, chart, holders, age,
                   red_flags, overall_risk_score, risk_rating, timestamp,
                   signalVars, scalpVars, serviceVars>>

\* overall_score, rating = self.calculate_overall_risk(risk_factors)
CalculateOverallRisk ==
    /\ pc = "overall"
    /\ \E score \in OverallRiskScores(risk_factors) :
          /\ overall_risk_score' = score
          /\ risk_rating' = RiskRating(score)
    /\ pc' = IF call = "analyze" THEN "result" ELSE "done"
    /\ UNCHANGED <<call, contract_address, metadata, chart, holders, age,
                   red_flags, risk_factors, timestamp, signalVars, scalpVars, serviceVars>>

\* result = AnalysisResult(..., timestamp=datetime.now().isoformat(), ...);
\* the clock has not gone back since get_contract_age read it
BuildAnalysisResult ==
    /\ call = "analyze" /\ pc = "result"
    /\ \E now \in Clock :
          /\ "first_tx" \in DOMAIN age =>
                 FGe(Frac(now - EpochOf(age.first_tx), DaySeconds), age.age_days)
          /\ timestamp' = IsoFormat(now)
    /\ pc' = "done"
    /\ UNCHANGED <<call, contract_address, metadata, chart, holders, age,
                   red_flags, risk_factors, overall_risk_score, risk_rating,
                   signalVars, scalpVars, serviceVars>>

NextRisk ==
    \/ GetTokenMetadata
    \/ GetDexscreenerData
    \/ GetHolderDistribution
    \/ GetContractAge
    \/ CheckScamPatterns
    \/ CalculateRiskScores
    \/ CalculateOverallRisk
    \/ BuildAnalysisResult

SpecRisk == InitRisk /\ [][NextRisk]_vars

----------------------------------------------------------------------------
(* properties of the risk model *)

RiskScoresComputed ==
    call \in {"analyze", "calculate_risk_scores"} /\ pc \in {"overall", "done"}

\* C1: every sub-score calculate_risk_scores returns is an integer in 0..100,
\* and the score calculate_overall_risk returns for sub-scores in 0..100 is
\* an integer in 0..100.
C1_RiskScoresBounded ==
    /\ RiskScoresComputed =>
          \A name \in RiskFactorNames : risk_factors[name] \in 0..100
    /\ pc = "done" =>
          /\ \A name \in RiskFactorNames : risk_factors[name] \in 0..100
          /\ overall_risk_score \in 0..100

\* more than ten red flags and more than six suspicious timeframes: both
\* caps act
C1_Witness ==
    /\ call = "calculate_risk_scores" /\ pc = "done"
    /\ Len(red_flags) > 10 /\ risk_factors.scam_pattern_risk = 100
    /\ SuspiciousCount(chart.timeframes) > 6
    /\ risk_factors.price_manipulation_risk = 100
    /\ overall_risk_score \in 0..100

\* C2: the rating is the step function of the score: LOW up to 20, MEDIUM
\* from 21 to 40, HIGH from 41 to 60, EXTREME from 61.
C2_RatingStepFunction ==
    pc = "done" =>
        /\ risk_rating = "LOW" <=> overall_risk_score <= 20
        /\ risk_rating = "MEDIUM" <=> (21 <= overall_risk_score /\ overall_risk_score <= 40)
        /\ risk_rating = "HIGH" <=> (41 <= overall_risk_score /\ overall_risk_score <= 60)
        /\ risk_rating = "EXTREME" <=> overall_risk_score >= 61

C2_Witness == pc = "done" /\ overall_risk_score = 40 /\ risk_rating = "MEDIUM"

\* C3: the overall score is non-decreasing in each sub-score: making one
\* sub-score larger never gives a smaller score, making it smaller never
\* gives a larger one.
C3_OverallRiskMonotone ==
    pc = "done" =>
        \A name \in RiskFactorNames :
            \A v \in SubScoreValues \cup {Min(risk_factors[name] + 1, 100)} :
                \A other \in OverallRiskScores([risk_factors EXCEPT ![name] = v]) :
                    /\ v > risk_factors[name] => other >= overall_risk_score
                    /\ v < risk_factors[name] => other <= overall_risk_score

\* a larger sub-score whose gain the truncation swallows
C3_Witness ==
    /\ pc = "done"
    /\ \E name \in RiskFactorNames :
          /\ risk_factors[name] < 100
          /\ OverallRiskScores([risk_factors EXCEPT ![name] = @ + 1])
                = {overall_risk_score}

\* C4: a missing upstream value gives the largest value of each sub-score
\* that depends on it.
C4_MissingValuesWorstCase ==
    RiskScoresComputed =>
        /\ chart.liquidity_usd = 0 =>
              (risk_factors.liquidity_risk = 100 /\ risk_factors.volume_risk = 80)
        /\ "top_10_concentration" \notin DOMAIN holders =>
              risk_factors.holder_concentration_risk = 100
        /\ "age_days" \notin DOMAIN age => risk_factors.contract_age_risk = 90

\* analyze() has fetched a fully-empty snapshot
EmptySnapshot ==
    /\ call = "analyze"
    /\ pc \in {"check", "scores", "overall", "done"}
    /\ metadata = TokenMetadataOf(EmptyDict)
    /\ chart = NoMarketChart
    /\ holders.holder_count = 0
    /\ age = [age_days |-> FromInt(0), is_new |-> TRUE]

RugProfile ==
    /\ call = "calculate_risk_scores"
    /\ Truthy(metadata.mint_authority) /\ Truthy(metadata.freeze_authority)
    /\ chart.liquidity_usd = 5000
    /\ DictGet(holders, "top_10_concentration", FromInt(0)) = FromInt(95)

\* C13: with mint authority and freeze authority present, liquidity of
\* $5,000 and a top-10 concentration of 95%, the sub-scores are mint 100,
\* freeze 80, liquidity 100, concentration 100 and the rating is HIGH or
\* EXTREME, whatever the other inputs are.
C13_RugProfileAtLeastHigh ==
    /\ RiskScoresComputed /\ RugProfile =>
          /\ risk_factors.mint_authority_risk = 100
          /\ risk_factors.freeze_authority_risk = 80
          /\ risk_factors.liquidity_risk = 100
          /\ risk_factors.holder_concentration_risk = 100
    /\ pc = "done" /\ RugProfile => risk_rating \in {"HIGH", "EXTREME"}

\* the most favourable remaining inputs: an old, initialized token without
\* flags, with ordinary volume and a quiet price; the rating is still HIGH
C13_Witness ==
    /\ pc = "done" /\ RugProfile
    /\ risk_factors.contract_age_risk = 10
    /\ risk_factors.verification_risk = 0
    /\ risk_factors.scam_pattern_risk = 0
    /\ risk_factors.volume_risk = 30
    /\ risk_factors.volatility_risk = 30
    /\ risk_factors.price_manipulation_risk = 0
    /\ risk_rating = "HIGH"

\* the volume risk as C14 states it: the table value of the ratio, the ratio
\* being 0 when the liquidity is 0
VolumeRiskOfGuardedRatio(volume, liquidity) ==
    LET ratio == IF liquidity = 0 THEN FromInt(0) ELSE Frac(volume, liquidity)
    IN IF FGt(ratio, FromInt(10)) THEN 80
       ELSE IF FGt(ratio, FromInt(5)) THEN 60
       ELSE IF FLt(ratio, Frac(1, 10)) THEN 70
       ELSE 30

\* C14: the volume risk is the table value of the volume/liquidity ratio (80
\* above 10, 60 above 5, 70 below 0.1, else 30), where liquidity 0 gives the
\* ratio 0.
C14_VolumeRiskOfGuardedRatio ==
    RiskScoresComputed =>
        risk_factors.volume_risk =
            VolumeRiskOfGuardedRatio(chart.volume_24h, chart.liquidity_usd)

\* C19: the output of analyze() is a function of the snapshot alone: the
\* age and the timestamp it returns are what any other reading of the clock
\* would have given.
C19_OutputIndependentOfClock ==
    call = "analyze" /\ pc = "done" =>
        \A now \in Clock :
            /\ timestamp = IsoFormat(now)
            /\ "first_tx" \in DOMAIN age =>
                   age.age_days = Frac(now - EpochOf(age.first_tx), DaySeconds)

----------------------------------------------------------------------------
(* scripts/smart_money_momentum_agent.py: the three sub-scores, the signal *)

\* max(0, min(100, score))
Clamp(score) == FMax(FromInt(0), FMin(FromInt(100), score))

\* calculate_smart_money_score
SmartMoneyScore(hm) ==
    LET presence == IF hm.smart_money_count >= 5 THEN 15
                    ELSE IF hm.smart_money_count >= 3 THEN 10
                    ELSE IF hm.smart_money_count >= 1 THEN 5
                    ELSE 0
        buying == IF hm.smart_money_buying THEN 20 ELSE 0
        selling == IF hm.smart_money_selling THEN 15 ELSE 0
        holdings == IF FGe(hm.smart_money_holdings_percent, FromInt(10)) THEN 10
                    ELSE IF FGe(hm.smart_money_holdings_percent, FromInt(5)) THEN 5
                    ELSE 0
        concentration == IF hm.concentration_risk = "high" THEN -10
                         ELSE IF hm.concentration_risk = "low" THEN 5
                         ELSE 0
    IN Clamp(FromInt(50 + presence + buying - selling + holdings + concentration))

VolumeTrendPoints(vm) ==
    IF vm.volume_trend = "spiking" THEN 20
    ELSE IF vm.volume_trend = "increasing" THEN 10
    ELSE IF vm.volume_trend = "decreasing" THEN -10
    ELSE 0

\* the price momentum branch of calculate_momentum_score; its last test is
\* only reached when the one before it failed
PriceMomentumPoints(m) ==
    IF FGt(m, FromInt(20)) THEN 15
    ELSE IF FGt(m, FromInt(10)) THEN 10
    ELSE IF FLt(m, FromInt(-10)) THEN -10
    ELSE IF FLt(m, FromInt(-20)) THEN -15
    ELSE 0

\* the RSI points if an oversold token lost points instead of gaining them
RsiPointsOversoldLoses(mi) ==
    IF mi.rsi_trend = "oversold" THEN -10
    ELSE IF mi.rsi_trend = "overbought" THEN -10
    ELSE 0

RsiPoints(mi) ==
    IF mi.rsi_trend = "oversold" THEN 10
    ELSE IF mi.rsi_trend = "overbought" THEN -10
    ELSE 0

TrendDirectionPoints(mi) ==
    IF mi.trend_direction = "up" THEN 10
    ELSE IF mi.trend_direction = "down" THEN -10
    ELSE 0

\* score of calculate_momentum_score before the final clamp
MomentumRawScore(vm, mi) ==
    FAdd(FromInt(50 + VolumeTrendPoints(vm) + PriceMomentumPoints(mi.price_momentum_24h)
                    + RsiPoints(mi) + TrendDirectionPoints(mi)),
         FDiv(vm.net_pressure, 5))

\* calculate_momentum_score without its final clamp
MomentumScoreUnclamped(vm, mi) == MomentumRawScore(vm, mi)

\* calculate_momentum_score
MomentumScore(vm, mi) == Clamp(MomentumRawScore(vm, mi))

\* [p for p in patterns if p.pattern_type in types]
PatternsOfType(patterns, types) ==
    SelectSeq(patterns, LAMBDA p : p.pattern_type \in types)

RECURSIVE SumConfidence(_)
SumConfidence(patterns) ==
    IF patterns = <<>> THEN FromInt(0)
    ELSE FAdd(Head(patterns).confidence, SumConfidence(Tail(patterns)))

\* sum(p.confidence for p in patterns) / len(patterns)
MeanConfidence(patterns) == FDiv(SumConfidence(patterns), Len(patterns))

\* calculate_pattern_score if bullish patterns overrode bearish ones
PatternScoreBullishFirst(patterns) ==
    LET bullish == PatternsOfType(patterns, {"breakout", "accumulation"})
        bearish == PatternsOfType(patterns, {"breakdown", "distribution"})
    IN IF patterns = <<>> THEN FromInt(50)
       ELSE IF bullish # <<>>
            THEN FAdd(FromInt(50), FDiv(MeanConfidence(bullish), 2))
       ELSE IF bearish # <<>>
            THEN FSub(FromInt(50), FDiv(MeanConfidence(bearish), 2))
       ELSE FromInt(50)

\* calculate_pattern_score
PatternScore(patterns) ==
    LET bullish == PatternsOfType(patterns, {"breakout", "accumulation"})
        bearish == PatternsOfType(patterns, {"breakdown", "distribution"})
    IN IF patterns = <<>> THEN FromInt(50)
       ELSE IF bullish # <<>> /\ bearish = <<>>
            THEN FAdd(FromInt(50), FDiv(MeanConfidence(bullish), 2))
       ELSE IF bearish # <<>> /\ bullish = <<>>
            THEN FSub(FromInt(50), FDiv(MeanConfidence(bearish), 2))
       ELSE IF bullish # <<>> /\ bearish # <<>>
            THEN FAdd(FromInt(50),
                      FDiv(FSub(MeanConfidence(bullish), MeanConfidence(bearish)), 2))
       ELSE FromInt(50)

\* the exact value of 0.35 * sm + 0.40 * mom + 0.25 * pat
CombinedExact(sm, mom, pat) ==
    FDiv(FAdd(FAdd(FMul(35, sm), FMul(40, mom)), FMul(25, pat)), 100)

SignalThresholds == {75, 60, 45, 30}

\* combined as the code holds it: the exact value, and whether the double
\* lies just below it.  That matters, and is allowed here, only when the
\* exact value is one of the thresholds (46 * 0.35 + 1 * 0.40 + 54 * 0.25 is
\* 29.999999999999996).
CombinedValues(sm, mom, pat) ==
    LET exact == CombinedExact(sm, mom, pat)
    IN {[value |-> exact, below |-> b] :
            b \in IF \E t \in SignalThresholds : FEq(exact, FromInt(t))
                  THEN BOOLEAN ELSE {FALSE}}

\* combined >= t
CombinedGe(combined, t) ==
    \/ FGt(combined.value, FromInt(t))
    \/ FEq(combined.value, FromInt(t)) /\ ~combined.below

\* the signal type of generate_signal with > for >=
SignalTypeStrict(combined) ==
    IF FGt(combined.value, FromInt(75)) THEN "strong_buy"
    ELSE IF FGt(combined.value, FromInt(60)) THEN "buy"
    ELSE IF FGt(combined.value, FromInt(45)) THEN "hold"
    ELSE IF FGt(combined.value, FromInt(30)) THEN "sell"
    ELSE "strong_sell"

\* the signal type of generate_signal
SignalType(combined) ==
    IF CombinedGe(combined, 75) THEN "strong_buy"
    ELSE IF CombinedGe(combined, 60) THEN "buy"
    ELSE IF CombinedGe(combined, 45) THEN "hold"
    ELSE IF CombinedGe(combined, 30) THEN "sell"
    ELSE "strong_sell"

\* variance = max(scores) - min(scores)
ScoreSpread(sm, mom, pat) ==
    FSub(FMax(sm, FMax(mom, pat)), FMin(sm, FMin(mom, pat)))

\* the confidence of generate_signal with <= for <
SignalConfidenceInclusive(sm, mom, pat) ==
    IF FLe(ScoreSpread(sm, mom, pat), FromInt(20)) THEN 85
    ELSE IF FLe(ScoreSpread(sm, mom, pat), FromInt(40)) THEN 70
    ELSE 55

\* the confidence of generate_signal
SignalConfidence(sm, mom, pat) ==
    IF FLt(ScoreSpread(sm, mom, pat), FromInt(20)) THEN 85
    ELSE IF FLt(ScoreSpread(sm, mom, pat), FromInt(40)) THEN 70
    ELSE 55

----------------------------------------------------------------------------
(* scripts/smart_money_momentum_agent.py: the analyses *)

\* raw_holders[:n]
Prefix(list, n) == SubSeq(list, 1, Min(Len(list), n))

\* the HolderProfile that analyze_holders builds for one raw holder
HolderProfileOf(holder, price) ==
    LET balance_usd == FMul(holder.balance, price)
    IN [balance |-> holder.balance,
        balance_usd |-> balance_usd,
        percent_held |-> holder.percent_held,
        is_whale |-> FGe(holder.percent_held, FromInt(1)),
        is_smart_money |-> /\ FGe(holder.percent_held, Frac(1, 2))
                           /\ FGe(balance_usd, FromInt(5000))]

RECURSIVE SumPercentHeld(_)
SumPercentHeld(profiles) ==
    IF profiles = <<>> THEN FromInt(0)
    ELSE FAdd(Head(profiles).percent_held, SumPercentHeld(Tail(profiles)))

\* the concentration risk of analyze_holders
ConcentrationRisk(top_10_pct) ==
    IF FGt(top_10_pct, FromInt(50)) THEN "high"
    ELSE IF FGt(top_10_pct, FromInt(30)) THEN "medium"
    ELSE "low"

\* len([h for h in top_holders if h.is_smart_money and h.balance_usd > 10000])
LargeSmartMoneyCount(top_holders) ==
    Len(SelectSeq(top_holders,
                  LAMBDA h : h.is_smart_money /\ FGt(h.balance_usd, FromInt(10000))))

\* smart_money_buying of analyze_holders with >= 2 for > 2
SmartMoneyBuyingFromTwo(top_holders) == LargeSmartMoneyCount(top_holders) >= 2

\* smart_money_buying of analyze_holders
SmartMoneyBuying(top_holders) == LargeSmartMoneyCount(top_holders) > 2

\* the HolderMetrics of a token without holders
NoHolderMetrics ==
    [total_holders |-> 0, active_holders_24h |-> 0, smart_money_count |-> 0,
     whale_count |-> 0, smart_money_holdings_percent |-> FromInt(0),
     concentration_risk |-> "unknown", smart_money_buying |-> FALSE,
     smart_money_selling |-> FALSE, smart_money_net_flow |-> 0,
     top_holders |-> <<>>]

\* analyze_holders, from the list that fetch_token_holders returned
HolderMetricsOf(raw, price) ==
    IF raw = <<>> THEN NoHolderMetrics
    ELSE LET analysed == Prefix(raw, 20)
             top_holders == [i \in 1..Len(analysed) |-> HolderProfileOf(analysed[i], price)]
             smart == SelectSeq(top_holders, LAMBDA h : h.is_smart_money)
             smart_money_buying == SmartMoneyBuying(top_holders)
             smart_money_selling == FALSE
         IN [total_holders |-> Len(raw),
             active_holders_24h |-> Len(raw),
             smart_money_count |-> Len(smart),
             whale_count |-> Len(SelectSeq(top_holders, LAMBDA h : h.is_whale)),
             smart_money_holdings_percent |-> SumPercentHeld(smart),
             concentration_risk |-> ConcentrationRisk(SumPercentHeld(Prefix(top_holders, 10))),
             smart_money_buying |-> smart_money_buying,
             smart_money_selling |-> smart_money_selling,
             smart_money_net_flow |-> IF smart_money_buying THEN 1
                                      ELSE IF smart_money_selling THEN -1
                                      ELSE 0,
             top_holders |-> top_holders]

\* abs(x) of a float
FAbs(a) == <<Abs(a[1]), a[2]>>

\* a value that Python takes as true: a number other than 0
NonZero(a) == a[1] # 0

\* the RSI approximation of analyze_momentum_indicators without the cap of
\* 25 on the half price change
RsiApproximationUncapped(price_change_24h) ==
    IF FGt(price_change_24h, FromInt(10))
    THEN FAdd(FromInt(70), FDiv(price_change_24h, 2))
    ELSE IF FLt(price_change_24h, FromInt(-10))
    THEN FSub(FromInt(30), FDiv(FAbs(price_change_24h), 2))
    ELSE FAdd(FromInt(50), price_change_24h)

\* the RSI approximation of analyze_momentum_indicators, before the clamp
RsiApproximation(price_change_24h) ==
    IF FGt(price_change_24h, FromInt(10))
    THEN FAdd(FromInt(70), FMin(FDiv(price_change_24h, 2), FromInt(25)))
    ELSE IF FLt(price_change_24h, FromInt(-10))
    THEN FSub(FromInt(30), FMin(FDiv(FAbs(price_change_24h), 2), FromInt(25)))
    ELSE FAdd(FromInt(50), price_change_24h)

\* the label is set from the RSI before the clamp
RsiTrend(price_change_24h) ==
    LET rsi == RsiApproximation(price_change_24h)
    IN IF FGt(price_change_24h, FromInt(10))
       THEN IF FGt(rsi, FromInt(70)) THEN "overbought" ELSE "neutral"
       ELSE IF FLt(price_change_24h, FromInt(-10))
       THEN IF FLt(rsi, FromInt(30)) THEN "oversold" ELSE "neutral"
       ELSE "neutral"

\* "Determine trend": the 7d change counts only when it is not 0
TrendDirection(price_change_24h, price_change_7d) ==
    IF /\ FGt(price_change_24h, FromInt(5))
       /\ (NonZero(price_change_7d) => FGt(price_change_7d, FromInt(0)))
    THEN "up"
    ELSE IF /\ FLt(price_change_24h, FromInt(-5))
            /\ (NonZero(price_change_7d) => FLt(price_change_7d, FromInt(0)))
    THEN "down"
    ELSE "sideways"

RECURSIVE SumAbs(_)
SumAbs(changes) ==
    IF changes = <<>> THEN FromInt(0)
    ELSE FAdd(FAbs(Head(changes)), SumAbs(Tail(changes)))

\* the mean absolute change over the timeframes whose change is not 0
Volatility(price_change) ==
    LET all == [i \in 1..4 |->
                   DictGet(price_change, <<"m5", "h1", "h6", "h24">>[i], FromInt(0))]
        price_changes == SelectSeq(all, NonZero)
    IN IF price_changes = <<>> THEN FromInt(0)
       ELSE FDiv(SumAbs(price_changes), Len(price_changes))

\* the MomentumIndicators of a token DexScreener knows nothing of
NoMomentumIndicators ==
    [rsi_14 |-> FromInt(50), rsi_trend |-> "neutral", macd_signal |-> "neutral",
     price_momentum_24h |-> FromInt(0), price_momentum_7d |-> FromInt(0),
     volatility_24h |-> FromInt(0), support_level |-> None,
     resistance_level |-> None, trend_direction |-> "sideways",
     trend_strength |-> FromInt(0)]

\* analyze_momentum_indicators, from the answer of DexScreener
MomentumIndicatorsOf(data, current_price) ==
    IF data = <<>> THEN NoMomentumIndicators
    ELSE LET price_change == DictGet(data[1], "priceChange", EmptyDict)
             price_change_24h == DictGet(price_change, "h24", FromInt(0))
             price_change_7d == DictGet(price_change, "h7", FromInt(0))
             trend == TrendDirection(price_change_24h, price_change_7d)
         IN [rsi_14 |-> Clamp(RsiApproximation(price_change_24h)),
             rsi_trend |-> RsiTrend(price_change_24h),
             macd_signal |-> IF trend = "up" THEN "bullish"
                             ELSE IF trend = "down" THEN "bearish"
                             ELSE "neutral",
             price_momentum_24h |-> price_change_24h,
             price_momentum_7d |-> price_change_7d,
             volatility_24h |-> Volatility(price_change),
             support_level |-> IF trend = "up" THEN Times(current_price, 900)
                               ELSE Times(current_price, 950),
             resistance_level |-> IF trend = "down" THEN Times(current_price, 1100)
                                  ELSE Times(current_price, 1050),
             trend_direction |-> trend,
             trend_strength |-> IF trend = "sideways" THEN FromInt(20)
                                ELSE FMin(FMul(3, FAbs(price_change_24h)), FromInt(100))]

RECURSIVE Pow10(_)
Pow10(decimals) == IF decimals = 0 THEN 1 ELSE 10 * Pow10(decimals - 1)

\* fetch_token_holders, from the answers to getTokenSupply and
\* getTokenLargestAccounts: the balance is scaled by the decimals, the share
\* is the balance over the unscaled supply
FetchedHolders(supply, largest_result) ==
    LET value == DictGet(supply, "value", EmptyDict)
        total_supply == DictGet(value, "amount", 0)
        decimals == DictGet(value, "decimals", 0)
        accounts == Prefix(DictGet(largest_result, "value", <<>>), 50)
    IN [i \in 1..Len(accounts) |->
           LET balance == DictGet(accounts[i], "amount", 0) \div Pow10(decimals)
           IN [balance |-> balance,
               percent_held |-> IF total_supply > 0
                                THEN Frac(100 * balance, total_supply)
                                ELSE FromInt(0)]]

\* VOLUME_SPIKE_THRESHOLD
VolumeSpikeThreshold == Frac(5, 2)

\* pair.get("volume", {}).get(tf, 0)
PairVolume(pair, tf) == DictGet(DictGet(pair, "volume", EmptyDict), tf, 0)

\* total_volume_24h over the pairs
RECURSIVE TotalVolume24h(_)
TotalVolume24h(pairs) ==
    IF pairs = <<>> THEN 0
    ELSE PairVolume(Head(pairs), "h24") + TotalVolume24h(Tail(pairs))

\* ten times buy_volume: 60% of a pair's volume when its price went up, 40%
\* otherwise
RECURSIVE BuyVolumeTenths(_)
BuyVolumeTenths(pairs) ==
    IF pairs = <<>> THEN 0
    ELSE LET pair == Head(pairs)
             price_change == DictGet(DictGet(pair, "priceChange", EmptyDict),
                                     "h24", FromInt(0))
         IN (IF FGt(price_change, FromInt(0)) THEN 6 ELSE 4) * PairVolume(pair, "h24")
            + BuyVolumeTenths(Tail(pairs))

\* volume_history: the 6h and 24h volumes of the pairs that are not 0
RECURSIVE VolumeHistory(_)
VolumeHistory(pairs) ==
    IF pairs = <<>> THEN <<>>
    ELSE SelectSeq(<<PairVolume(Head(pairs), "h6"), PairVolume(Head(pairs), "h24")>>,
                   LAMBDA vol : vol # 0)
         \o VolumeHistory(Tail(pairs))

RECURSIVE SumSeq(_)
SumSeq(numbers) ==
    IF numbers = <<>> THEN 0 ELSE Head(numbers) + SumSeq(Tail(numbers))

\* the 24h volumes of the pairs that are not 0, in the order of the pairs
Volumes24h(pairs) ==
    SelectSeq([i \in 1..Len(pairs) |-> PairVolume(pairs[i], "h24")],
              LAMBDA vol : vol # 0)

\* buy_volume, sell_volume and the two pressures are doubles.  When every
\* pair with volume moved the same way the exact net pressure is 20 or -20;
\* the double is 20.000000000000007 or -20.000000000000007 for these
\* sequences of 24h volumes (1 * 0.6 + 30 * 0.6 is 18.6, 18.6 / 31.0 * 100 is
\* 60.00000000000001), and at or inside the exact value for the others over
\* the volumes 1, 30, 500, 800 and 12000
NetPressureRoundsBeyond ==
    {<<1, 30>>, <<30, 1>>, <<1, 30, 1>>, <<30, 1, 1>>, <<1, 1, 30, 30>>,
     <<1, 30, 1, 30>>, <<1, 30, 30, 1>>, <<30, 1, 1, 30>>, <<30, 1, 30, 1>>,
     <<30, 30, 1, 1>>}

\* the "Determine trend" step with a spike from 1.5 times the average on
VolumeTrendSpikeFromIncrease(volume_ratio) ==
    IF FGe(volume_ratio, Frac(3, 2)) THEN "spiking"
    ELSE IF FLe(volume_ratio, Frac(7, 10)) THEN "decreasing"
    ELSE "stable"

\* the "Determine trend" step of analyze_volume_momentum
VolumeTrend(volume_ratio) ==
    IF FGe(volume_ratio, VolumeSpikeThreshold) THEN "spiking"
    ELSE IF FGe(volume_ratio, Frac(3, 2)) THEN "increasing"
    ELSE IF FLe(volume_ratio, Frac(7, 10)) THEN "decreasing"
    ELSE "stable"

\* the VolumeMomentum of a token DexScreener knows nothing of;
\* net_rounds_beyond is no field of the dataclass: it records that the
\* double net_pressure lies one rounding step beyond the exact 20 or -20
NoVolumeMomentum ==
    [current_volume_24h |-> 0, avg_volume_7d |-> FromInt(0),
     volume_ratio |-> FromInt(1), volume_trend |-> "stable",
     volume_spikes_24h |-> 0, buy_pressure |-> FromInt(50),
     sell_pressure |-> FromInt(50), net_pressure |-> FromInt(0),
     net_rounds_beyond |-> FALSE,
     accumulation_score |-> FromInt(50), distribution_score |-> FromInt(50),
     unusual_activity |-> FALSE]

\* analyze_volume_momentum, from the answer of DexScreener
VolumeMomentumOf(data) ==
    IF data = <<>> THEN NoVolumeMomentum
    ELSE LET pairs == Prefix(data, 5)
             total_volume_24h == TotalVolume24h(pairs)
             buy_tenths == BuyVolumeTenths(pairs)
             sell_tenths == 10 * total_volume_24h - buy_tenths
             volume_history == VolumeHistory(pairs)
             avg_volume == IF volume_history # <<>>
                           THEN Frac(SumSeq(volume_history), Len(volume_history))
                           ELSE FromInt(total_volume_24h)
             volume_ratio == IF FGt(avg_volume, FromInt(0))
                             THEN Frac(total_volume_24h * avg_volume[2], avg_volume[1])
                             ELSE FromInt(1)
             volume_trend == VolumeTrend(volume_ratio)
             total_tenths == buy_tenths + sell_tenths
             buy_pressure == IF total_tenths > 0
                             THEN Frac(100 * buy_tenths, total_tenths)
                             ELSE FromInt(50)
             sell_pressure == IF total_tenths > 0
                              THEN Frac(100 * sell_tenths, total_tenths)
                              ELSE FromInt(50)
             net_pressure == FSub(buy_pressure, sell_pressure)
             net_rounds_beyond == /\ FAbs(net_pressure) = FromInt(20)
                                  /\ Volumes24h(pairs) \in NetPressureRoundsBeyond
             rising == volume_trend \in {"increasing", "spiking"}
             accumulating ==
                 /\ \/ FGt(net_pressure, FromInt(20))
                    \/ net_pressure = FromInt(20) /\ net_rounds_beyond
                 /\ rising
             distributing ==
                 /\ \/ FLt(net_pressure, FromInt(-20))
                    \/ net_pressure = FromInt(-20) /\ net_rounds_beyond
                 /\ rising
         IN [current_volume_24h |-> total_volume_24h,
             avg_volume_7d |-> avg_volume,
             volume_ratio |-> volume_ratio,
             volume_trend |-> volume_trend,
             volume_spikes_24h |-> IF volume_trend = "spiking" THEN 1 ELSE 0,
             buy_pressure |-> buy_pressure,
             sell_pressure |-> sell_pressure,
             net_pressure |-> net_pressure,
             net_rounds_beyond |-> net_rounds_beyond,
             accumulation_score |-> IF accumulating THEN FromInt(80)
                                    ELSE IF distributing THEN FromInt(20)
                                    ELSE FromInt(50),
             distribution_score |-> IF accumulating THEN FromInt(20)
                                    ELSE IF distributing THEN FromInt(80)
                                    ELSE FromInt(50),
             unusual_activity |-> volume_trend = "spiking"]

\* ChartPattern(pattern_type, confidence, price_target, stop_loss), the
\* target and the stop in thousandths of the price
ChartPattern(type, conf, price, target, stop) ==
    [pattern_type |-> type, confidence |-> conf,
     price_target |-> Times(price, target), stop_loss |-> Times(price, stop)]

BreakoutRule(momentum, volume) ==
    /\ momentum.trend_direction = "up" /\ volume.volume_trend = "spiking"
    /\ FGt(momentum.price_momentum_24h, FromInt(10))

AccumulationRule(momentum, volume) ==
    FGt(volume.accumulation_score, FromInt(70)) /\ momentum.rsi_trend = "oversold"

ConsolidationRule(momentum, volume) ==
    momentum.trend_direction = "sideways" /\ volume.volume_trend = "decreasing"

DistributionRule(momentum, volume) ==
    FGt(volume.distribution_score, FromInt(70)) /\ momentum.rsi_trend = "overbought"

BreakdownRule(momentum, volume) ==
    momentum.trend_direction = "down" /\ volume.volume_trend = "spiking"

\* the pattern each rule appends
PatternOfRule(momentum, price) ==
    [breakout |-> ChartPattern("breakout",
                      FMin(FAdd(momentum.trend_strength, FromInt(10)), FromInt(95)),
                      price, 1200, 920),
     accumulation |-> ChartPattern("accumulation", FromInt(75), price, 1150, 880),
     consolidation |-> ChartPattern("consolidation", FromInt(60), price, 1100, 900),
     distribution |-> ChartPattern("distribution", FromInt(70), price, 850, 1050),
     breakdown |-> ChartPattern("breakdown",
                       FMin(FAdd(momentum.trend_strength, FromInt(10)), FromInt(90)),
                       price, 800, 1080)]

\* detect_chart_patterns as an if / elif chain: the first rule that holds wins
DetectChartPatternsFirstMatch(momentum, volume, price) ==
    LET p == PatternOfRule(momentum, price)
    IN IF BreakoutRule(momentum, volume) THEN <<p.breakout>>
       ELSE IF AccumulationRule(momentum, volume) THEN <<p.accumulation>>
       ELSE IF ConsolidationRule(momentum, volume) THEN <<p.consolidation>>
       ELSE IF DistributionRule(momentum, volume) THEN <<p.distribution>>
       ELSE IF BreakdownRule(momentum, volume) THEN <<p.breakdown>>
       ELSE <<>>

\* detect_chart_patterns: five ifs, each appending its pattern
DetectChartPatterns(momentum, volume, price) ==
    LET p == PatternOfRule(momentum, price)
    IN (IF BreakoutRule(momentum, volume) THEN <<p.breakout>> ELSE <<>>)
       \o (IF AccumulationRule(momentum, volume) THEN <<p.accumulation>> ELSE <<>>)
       \o (IF ConsolidationRule(momentum, volume) THEN <<p.consolidation>> ELSE <<>>)
       \o (IF DistributionRule(momentum, volume) THEN <<p.distribution>> ELSE <<>>)
       \o (IF BreakdownRule(momentum, volume) THEN <<p.breakdown>> ELSE <<>>)

----------------------------------------------------------------------------
(* the signal scoring: its inputs and its state machine *)

\* the most smart-money wallets counted among the holders
MaxSmartMoney == 6

\* the most patterns in a detected list
MaxPatterns == 2

\* the fields of HolderMetrics that the scoring reads
HolderMetricsValues ==
    [smart_money_count : 0..MaxSmartMoney,
     smart_money_holdings_percent :
         {FromInt(0), FromInt(4), FromInt(5), Frac(19, 2), FromInt(10), FromInt(60)},
     concentration_risk : {"low", "medium", "high", "unknown"},
     smart_money_buying : BOOLEAN,
     smart_money_selling : BOOLEAN]

HolderMetricsFew ==
    {[smart_money_count |-> 5, smart_money_holdings_percent |-> FromInt(10),
      concentration_risk |-> "low", smart_money_buying |-> TRUE,
      smart_money_selling |-> FALSE],
     [smart_money_count |-> 0, smart_money_holdings_percent |-> FromInt(0),
      concentration_risk |-> "high", smart_money_buying |-> FALSE,
      smart_money_selling |-> TRUE]}

\* the fields of VolumeMomentum that the scoring reads
VolumeMomentumValues ==
    [volume_trend : {"spiking", "increasing", "stable", "decreasing"},
     net_pressure : {FromInt(n) : n \in {-100, -20, -7, 0, 7, 20, 100}}]

VolumeMomentumFew ==
    {[volume_trend |-> "spiking", net_pressure |-> FromInt(100)],
     [volume_trend |-> "stable", net_pressure |-> FromInt(0)],
     [volume_trend |-> "decreasing", net_pressure |-> FromInt(-100)]}

\* the fields of MomentumIndicators that the scoring reads
MomentumIndicatorsValues ==
    [price_momentum_24h :
         {FromInt(n) : n \in {-25, -21, -20, -11, -10, 0, 10, 11, 20, 21, 30}},
     rsi_trend : {"oversold", "neutral", "overbought"},
     trend_direction : {"up", "sideways", "down"}]

MomentumIndicatorsFew ==
    {[price_momentum_24h |-> FromInt(30), rsi_trend |-> "oversold",
      trend_direction |-> "up"],
     [price_momentum_24h |-> FromInt(0), rsi_trend |-> "neutral",
      trend_direction |-> "sideways"],
     [price_momentum_24h |-> FromInt(-25), rsi_trend |-> "overbought",
      trend_direction |-> "down"]}

PatternTypes == {"breakout", "breakdown", "accumulation", "distribution", "consolidation"}

PatternSignals ==
    [pattern_type : PatternTypes, confidence : {FromInt(0), FromInt(35), FromInt(100)}]

\* lists of up to MaxPatterns patterns, alone or followed by a consolidation
PatternLists ==
    LET lists == UNION {[1..n -> PatternSignals] : n \in 0..MaxPatterns}
    IN lists \cup {l \o <<[pattern_type |-> "consolidation", confidence |-> FromInt(35)]>> :
                      l \in lists}

PatternListsFew ==
    {<<>>, <<[pattern_type |-> "breakout", confidence |-> FromInt(100)]>>,
     <<[pattern_type |-> "breakdown", confidence |-> FromInt(100)]>>}

\* the sub-scores handed to generate_signal when it is called by itself
ScoreValues == {FromInt(n) : n \in {0, 10, 30, 40, 45, 50, 60, 70, 75, 80, 100}}
                   \cup {Frac(119, 2), Frac(301, 10)}

\* the most raw holders of one kind in a list
MaxHolders == 21

\* raw holders: large and small balances, with shares on both sides of the
\* whale and smart-money tests
HolderKinds ==
    {[balance |-> 20000, percent_held |-> FromInt(6)],
     [balance |-> 5000, percent_held |-> FromInt(5)],
     [balance |-> 5001, percent_held |-> FromInt(3)],
     [balance |-> 4999, percent_held |-> Frac(1, 2)],
     [balance |-> 20000, percent_held |-> Frac(2, 5)]}

\* a run of one kind of holder followed by up to three of another
HolderLists ==
    {Rep(k1, a) \o Rep(k2, b) :
        k1 \in HolderKinds, k2 \in HolderKinds, a \in 0..MaxHolders, b \in 0..3}

HolderPrices == {FromInt(0), FromInt(1), FromInt(2), Frac(1, 2)}

\* 24h price changes on both sides of every test of the indicators
PriceChanges24h ==
    {FromInt(n) : n \in {-1000, -101, -60, -50, -11, -10, -6, -5, 0, 5, 6, 10,
                         11, 49, 50, 51, 100, 1000}}
        \cup {Frac(21, 2), Frac(-21, 2)}

PriceChanges7d == {FromInt(-3), FromInt(0), FromInt(3)}

\* the priceChange entry of a DexScreener pair
PriceChangeDicts ==
    {EmptyDict}
    \cup {[h24 |-> c] : c \in PriceChanges24h}
    \cup {[h24 |-> c, h7 |-> w] : c \in PriceChanges24h, w \in PriceChanges7d}
    \cup {[m5 |-> FromInt(-2), h1 |-> FromInt(4), h6 |-> FromInt(0), h24 |-> c, h7 |-> w] :
              c \in PriceChanges24h, w \in PriceChanges7d}

\* the answers of the token-pairs endpoint: nothing, or a list of pairs of
\* which the first is the main pair
DexPairLists ==
    {<<>>}
    \cup {<<[priceChange |-> d]>> : d \in PriceChangeDicts}
    \cup {<<[priceChange |-> d], [priceChange |-> EmptyDict]>> : d \in PriceChangeDicts}

\* the fields of MomentumIndicators that detect_chart_patterns reads
PatternMomentumValues ==
    [trend_direction : {"up", "sideways", "down"},
     price_momentum_24h : {FromInt(10), FromInt(11)},
     rsi_trend : {"oversold", "neutral", "overbought"},
     trend_strength : {FromInt(n) : n \in {0, 20, 80, 85, 100}}]

\* the fields of VolumeMomentum that detect_chart_patterns reads
PatternVolumeValues ==
    [volume_trend : {"spiking", "increasing", "stable", "decreasing"},
     accumulation_score : {FromInt(n) : n \in {20, 50, 70, 80}},
     distribution_score : {FromInt(n) : n \in {20, 50, 70, 80}}]

IdleRisk ==
    /\ contract_address = Unset /\ metadata = Unset /\ chart = Unset
    /\ holders = Unset /\ age = Unset /\ red_flags = Unset
    /\ risk_factors = Unset /\ overall_risk_score = Unset
    /\ risk_rating = Unset /\ timestamp = Unset

\* analyze_token from its "Calculate scores" step on: the analysis results
\* are given, the three scores and the signal are computed from them
InitScoreSignal ==
    /\ call = "score_signal"
    /\ pc = "smart_money"
    /\ \E focus \in {"holders", "volume", "indicators", "patterns"} :
          /\ holder_metrics \in Pick(focus, "holders", HolderMetricsValues, HolderMetricsFew)
          /\ volume_momentum \in Pick(focus, "volume", VolumeMomentumValues, VolumeMomentumFew)
          /\ momentum_indicators \in
                 Pick(focus, "indicators", MomentumIndicatorsValues, MomentumIndicatorsFew)
          /\ detected_patterns \in Pick(focus, "patterns", PatternLists, PatternListsFew)
    /\ smart_money_score = Unset /\ momentum_score = Unset
    /\ pattern_score = Unset /\ combined_score = Unset
    /\ signal_type = Unset /\ confidence = Unset

\* generate_signal(smart_money_score, momentum_score, pattern_score, patterns)
InitGenerateSignal ==
    /\ call = "generate_signal"
    /\ pc = "signal"
    /\ holder_metrics = Unset /\ volume_momentum = Unset
    /\ momentum_indicators = Unset
    /\ detected_patterns = <<>>
    /\ smart_money_score \in ScoreValues
    /\ momentum_score \in ScoreValues
    /\ pattern_score \in ScoreValues
    /\ combined_score = Unset /\ signal_type = Unset /\ confidence = Unset

IdleScores ==
    /\ smart_money_score = Unset /\ momentum_score = Unset
    /\ pattern_score = Unset /\ combined_score = Unset
    /\ signal_type = Unset /\ confidence = Unset

\* analyze_holders(token_address, price_usd), after fetch_token_holders has
\* returned raw_holders
InitAnalyzeHolders ==
    /\ call = "analyze_holders"
    /\ pc = "holders"
    /\ raw_holders \in HolderLists
    /\ price_usd \in HolderPrices
    /\ supply_result = Unset
    /\ dex_data = Unset /\ tasks = Unset /\ in_flight = Unset
    /\ holder_metrics = Unset /\ volume_momentum = Unset
    /\ momentum_indicators = Unset /\ detected_patterns = Unset
    /\ IdleScores

\* analyze_momentum_indicators(token_address, current_price), after
\* DexScreener has answered
InitAnalyzeMomentumIndicators ==
    /\ call = "analyze_momentum_indicators"
    /\ pc = "indicators"
    /\ dex_data \in DexPairLists
    /\ price_usd \in {FromInt(0), Frac(3, 2)}
    /\ supply_result = Unset
    /\ raw_holders = Unset /\ tasks = Unset /\ in_flight = Unset
    /\ holder_metrics = Unset /\ volume_momentum = Unset
    /\ momentum_indicators = Unset /\ detected_patterns = Unset
    /\ IdleScores

\* detect_chart_patterns(momentum, volume, price)
InitDetectChartPatterns ==
    /\ call = "detect_chart_patterns"
    /\ pc = "patterns"
    /\ momentum_indicators \in PatternMomentumValues
    /\ volume_momentum \in PatternVolumeValues
    /\ price_usd = Frac(3, 2)
    /\ supply_result = Unset
    /\ raw_holders = Unset /\ dex_data = Unset
    /\ tasks = Unset /\ in_flight = Unset
    /\ holder_metrics = Unset /\ detected_patterns = Unset
    /\ IdleScores

\* AgentConfig.min_liquidity_usd
MinLiquidityUsd == 10000

\* a pair of the token-pairs endpoint with all the entries that are read
TokenPair(liquidity, volume, change) ==
    [priceUsd |-> Frac(3, 2), liquidity |-> [usd |-> liquidity],
     volume |-> volume, priceChange |-> [h24 |-> FromInt(change)]]

\* main pairs with liquidity on both sides of the minimum, prices falling
\* and rising, volume growing and drying up, and with entries missing
TokenPairs ==
    {TokenPair(9999, [h6 |-> 3000, h24 |-> 12000], 12),
     TokenPair(10000, [h6 |-> 3000, h24 |-> 12000], -12),
     TokenPair(10000, [h6 |-> 3000, h24 |-> 12000], 12),
     TokenPair(50000, [h6 |-> 30, h24 |-> 1], -6),
     [priceUsd |-> Frac(3, 2), liquidity |-> [usd |-> 50000],
      volume |-> [h24 |-> 800], priceChange |-> EmptyDict],
     [liquidity |-> [usd |-> 50000]]}

\* the answers of the token-pairs endpoint to one request: nothing (also
\* for an error or a status other than 200), one pair, two, or three: a
\* main pair without volume that moved against two pairs with volume, and
\* three equal pairs in a strong move
TokenPairAnswers ==
    {<<>>} \cup {<<pair>> : pair \in TokenPairs}
    \cup {<<TokenPair(10000, [h6 |-> 3000, h24 |-> 12000], c),
            [volume |-> [h6 |-> 500, h24 |-> 500],
             priceChange |-> [h24 |-> FromInt(3)]]>> : c \in {-12, 12}}
    \cup {<<[priceUsd |-> Frac(3, 2), liquidity |-> [usd |-> 50000],
             priceChange |-> [h24 |-> FromInt(-c)]],
            [volume |-> [h24 |-> 1], priceChange |-> [h24 |-> FromInt(c)]],
            [volume |-> [h24 |-> 30], priceChange |-> [h24 |-> FromInt(c)]]>> :
              c \in {-12, 12}}
    \cup {Rep(TokenPair(50000, [h24 |-> 30], c), 3) : c \in {-30, 25}}

\* the answers to getTokenSupply: nothing, or an amount with its decimals
SupplyAnswers ==
    {EmptyDict, [value |-> [amount |-> 1000000, decimals |-> 0]],
     [value |-> [amount |-> 1000000, decimals |-> 1]], [value |-> EmptyDict]}

\* the answers to getTokenLargestAccounts: nothing, or the accounts (amounts
\* that are whole numbers of tokens for either number of decimals)
LargestAccountAnswers ==
    {EmptyDict, [value |-> <<>>],
     [value |-> Rep([amount |-> 100000], 3)],
     [value |-> <<[amount |-> 600000], [amount |-> 10]>>]}

\* the most pairs in an answer given to analyze_volume_momentum by itself
MaxVolumePairs == 3

\* pairs with and without 6h and 24h volumes, falling, flat and rising
VolumePairs ==
    [volume : {EmptyDict, [h24 |-> 1], [h24 |-> 30], [h6 |-> 1, h24 |-> 30],
               [h6 |-> 30, h24 |-> 1], [h6 |-> 30]},
     priceChange : {[h24 |-> FromInt(-12)], EmptyDict, [h24 |-> FromInt(12)]}]

\* answers of up to MaxVolumePairs pairs, and answers of six equal pairs, of
\* which only five are read
VolumePairLists ==
    UNION {[1..n -> VolumePairs] : n \in 0..MaxVolumePairs}
    \cup {Rep(pair, 6) : pair \in VolumePairs}

\* analyze_volume_momentum(token_address), after DexScreener has answered
InitAnalyzeVolumeMomentum ==
    /\ call = "analyze_volume_momentum"
    /\ pc = "volume"
    /\ dex_data \in VolumePairLists
    /\ supply_result = Unset /\ raw_holders = Unset /\ price_usd = Unset
    /\ tasks = Unset /\ in_flight = Unset
    /\ holder_metrics = Unset /\ volume_momentum = Unset
    /\ momentum_indicators = Unset /\ detected_patterns = Unset
    /\ IdleScores

\* the coroutines that analyze_token hands to asyncio.gather, in the order
\* in which the event loop first runs them
TaskNames == <<"holders", "volume", "momentum">>

\* a request that has been sent and not yet answered
Request(task, endpoint) == [task |-> task, endpoint |-> endpoint]

\* analyze_token(token_address), before its first request; the key of
\* the Helius endpoint may or may not be configured
InitAnalyzeToken ==
    /\ call = "analyze_token"
    /\ pc = "start"
    /\ supply_result = Unset /\ raw_holders = Unset
    /\ price_usd = Unset /\ dex_data = Unset
    /\ tasks = Unset
    /\ in_flight = {}
    /\ holder_metrics = Unset /\ volume_momentum = Unset
    /\ momentum_indicators = Unset /\ detected_patterns = Unset
    /\ IdleScores

InitSignal ==
    /\ \/ (InitScoreSignal \/ InitGenerateSignal) /\ IdleFetch
       \/ InitAnalyzeToken
       \/ InitAnalyzeVolumeMomentum
       \/ InitAnalyzeHolders
       \/ InitAnalyzeMomentumIndicators
       \/ InitDetectChartPatterns
    /\ IdleRisk
    /\ IdleScalp
    /\ IdleApi /\ IdleTrades

CalculateSmartMoneyScore ==
    /\ call \in {"score_signal", "analyze_token"} /\ pc = "smart_money"
    /\ smart_money_score' = SmartMoneyScore(holder_metrics)
    /\ pc' = "momentum"
    /\ UNCHANGED <<call, holder_metrics, volume_momentum, momentum_indicators,
                   detected_patterns, momentum_score, pattern_score,
                   combined_score, signal_type, confidence, fetchVars, riskVars, scalpVars, serviceVars>>

CalculateMomentumScore ==
    /\ call \in {"score_signal", "analyze_token"} /\ pc = "momentum"
    /\ momentum_score' = MomentumScore(volume_momentum, momentum_indicators)
    /\ pc' = "pattern"
    /\ UNCHANGED <<call, holder_metrics, volume_momentum, momentum_indicators,
                   detected_patterns, smart_money_score, pattern_score,
                   combined_score, signal_type, confidence, fetchVars, riskVars, scalpVars, serviceVars>>

CalculatePatternScore ==
    /\ call \in {"score_signal", "analyze_token"} /\ pc = "pattern"
    /\ pattern_score' = PatternScore(detected_patterns)
    /\ pc' = "signal"
    /\ UNCHANGED <<call, holder_metrics, volume_momentum, momentum_indicators,
                   detected_patterns, smart_money_score, momentum_score,
                   combined_score, signal_type, confidence, fetchVars, riskVars, scalpVars, serviceVars>>

GenerateSignal ==
    /\ call \in {"score_signal", "generate_signal", "analyze_token"} /\ pc = "signal"
    /\ \E combined \in CombinedValues(smart_money_score, momentum_score, pattern_score) :
          /\ combined_score' = combined
          /\ signal_type' = SignalType(combined)
    /\ confidence' = SignalConfidence(smart_money_score, momentum_score, pattern_score)
    /\ pc' = "done"
    /\ UNCHANGED <<call, holder_metrics, volume_momentum, momentum_indicators,
                   detected_patterns, smart_money_score, momentum_score,
                   pattern_score, fetchVars, riskVars, scalpVars, serviceVars>>

AnalyzeHolders ==
    /\ call = "analyze_holders" /\ pc = "holders"
    /\ holder_metrics' = HolderMetricsOf(raw_holders, price_usd)
    /\ pc' = "done"
    /\ UNCHANGED <<call, volume_momentum, momentum_indicators, detected_patterns,
                   smart_money_score, momentum_score, pattern_score,
                   combined_score, signal_type, confidence,
                   fetchVars, riskVars, scalpVars, serviceVars>>

AnalyzeMomentumIndicators ==
    /\ call = "analyze_momentum_indicators" /\ pc = "indicators"
    /\ momentum_indicators' = MomentumIndicatorsOf(dex_data, price_usd)
    /\ pc' = "done"
    /\ UNCHANGED <<call, holder_metrics, volume_momentum, detected_patterns,
                   smart_money_score, momentum_score, pattern_score,
                   combined_score, signal_type, confidence,
                   fetchVars, riskVars, scalpVars, serviceVars>>

AnalyzeVolumeMomentum ==
    /\ call = "analyze_volume_momentum" /\ pc = "volume"
    /\ volume_momentum' = VolumeMomentumOf(dex_data)
    /\ pc' = "done"
    /\ UNCHANGED <<call, holder_metrics, momentum_indicators, detected_patterns,
                   smart_money_score, momentum_score, pattern_score,
                   combined_score, signal_type, confidence,
                   fetchVars, riskVars, scalpVars, serviceVars>>

DetectPatterns ==
    /\ call \in {"detect_chart_patterns", "analyze_token"} /\ pc = "patterns"
    /\ detected_patterns' =
           DetectChartPatterns(momentum_indicators, volume_momentum, price_usd)
    /\ pc' = IF call = "analyze_token" THEN "smart_money" ELSE "done"
    /\ UNCHANGED <<call, holder_metrics, volume_momentum, momentum_indicators,
                   smart_money_score, momentum_score, pattern_score,
                   combined_score, signal_type, confidence,
                   fetchVars, riskVars, scalpVars, serviceVars>>

\* the variables that the requests and answers of analyze_token leave alone
scoreVars == <<detected_patterns, smart_money_score, momentum_score,
               pattern_score, combined_score, signal_type, confidence>>

\* the coroutine `task` of the gather has been run up to its first await
Started(task) == tasks[task] # "created"

AllStarted == \A i \in 1..Len(TaskNames) : Started(TaskNames[i])

\* analyze_token sends its own request for the pairs of the token
FetchTokenInfo ==
    /\ call = "analyze_token" /\ pc = "start"
    /\ in_flight' = in_flight \cup {Request("analyze_token", "token-pairs")}
    /\ pc' = "info"
    /\ UNCHANGED <<call, supply_result, raw_holders, price_usd, dex_data, tasks,
                   holder_metrics, volume_momentum, momentum_indicators,
                   scoreVars, riskVars, scalpVars, serviceVars>>

\* the answer arrives: no data or too little liquidity ends the analysis
\* with None, otherwise the three analyses are created for the gather
ReceiveTokenInfo ==
    /\ call = "analyze_token" /\ pc = "info"
    /\ in_flight' = in_flight \ {Request("analyze_token", "token-pairs")}
    /\ \E data \in TokenPairAnswers :
          /\ dex_data' = data
          /\ IF data = <<>>
             THEN pc' = "none" /\ UNCHANGED <<price_usd, tasks>>
             ELSE LET pair == data[1]
                      price == DictGet(pair, "priceUsd", FromInt(0))
                      liquidity == DictGet(DictGet(pair, "liquidity", EmptyDict), "usd", 0)
                  IN /\ price_usd' = price
                     /\ IF liquidity < MinLiquidityUsd
                        THEN pc' = "none" /\ UNCHANGED tasks
                        ELSE /\ pc' = "gather"
                             /\ tasks' = [holders |-> "created", volume |-> "created",
                                          momentum |-> "created"]
    /\ UNCHANGED <<call, supply_result, raw_holders,
                   holder_metrics, volume_momentum, momentum_indicators,
                   scoreVars, riskVars, scalpVars, serviceVars>>

\* analyze_holders runs up to its first await: the getTokenSupply request
\* of fetch_token_holders, or to its end when _helius_call returns {} at
\* once because HELIUS_API_KEY is not set
StartHoldersTask ==
    /\ call = "analyze_token" /\ pc = "gather"
    /\ tasks.holders = "created"
    /\ \E helius_api_key \in BOOLEAN :
          IF helius_api_key
          THEN /\ in_flight' = in_flight \cup {Request("holders", "getTokenSupply")}
               /\ tasks' = [tasks EXCEPT !.holders = "supply"]
               /\ UNCHANGED <<supply_result, raw_holders, holder_metrics>>
          ELSE /\ supply_result' = EmptyDict
               /\ raw_holders' = <<>>
               /\ holder_metrics' = HolderMetricsOf(<<>>, price_usd)
               /\ tasks' = [tasks EXCEPT !.holders = "done"]
               /\ UNCHANGED in_flight
    /\ UNCHANGED <<call, pc, price_usd, dex_data, volume_momentum,
                   momentum_indicators, scoreVars, riskVars, scalpVars, serviceVars>>

\* analyze_volume_momentum runs up to its request for the pairs
StartVolumeTask ==
    /\ call = "analyze_token" /\ pc = "gather"
    /\ Started("holders") /\ tasks.volume = "created"
    /\ in_flight' = in_flight \cup {Request("volume", "token-pairs")}
    /\ tasks' = [tasks EXCEPT !.volume = "pairs"]
    /\ UNCHANGED <<call, pc, supply_result, raw_holders, price_usd, dex_data,
                   holder_metrics, volume_momentum, momentum_indicators,
                   scoreVars, riskVars, scalpVars, serviceVars>>

\* analyze_momentum_indicators runs up to its request for the pairs
StartMomentumTask ==
    /\ call = "analyze_token" /\ pc = "gather"
    /\ Started("volume") /\ tasks.momentum = "created"
    /\ in_flight' = in_flight \cup {Request("momentum", "token-pairs")}
    /\ tasks' = [tasks EXCEPT !.momentum = "pairs"]
    /\ UNCHANGED <<call, pc, supply_result, raw_holders, price_usd, dex_data,
                   holder_metrics, volume_momentum, momentum_indicators,
                   scoreVars, riskVars, scalpVars, serviceVars>>

\* getTokenSupply is answered: without a supply there are no holders,
\* with one fetch_token_holders asks for the largest accounts
ReceiveTokenSupply ==
    /\ call = "analyze_token" /\ pc = "gather"
    /\ AllStarted /\ tasks.holders = "supply"
    /\ \E supply \in SupplyAnswers :
          /\ supply_result' = supply
          /\ IF supply = EmptyDict
             THEN /\ raw_holders' = <<>>
                  /\ holder_metrics' = HolderMetricsOf(<<>>, price_usd)
                  /\ tasks' = [tasks EXCEPT !.holders = "done"]
                  /\ in_flight' = in_flight \ {Request("holders", "getTokenSupply")}
             ELSE /\ tasks' = [tasks EXCEPT !.holders = "largest"]
                  /\ in_flight' = (in_flight \ {Request("holders", "getTokenSupply")})
                                      \cup {Request("holders", "getTokenLargestAccounts")}
                  /\ UNCHANGED <<raw_holders, holder_metrics>>
    /\ UNCHANGED <<call, pc, price_usd, dex_data, volume_momentum,
                   momentum_indicators, scoreVars, riskVars, scalpVars, serviceVars>>

\* getTokenLargestAccounts is answered: analyze_holders runs to its end
ReceiveLargestAccounts ==
    /\ call = "analyze_token" /\ pc = "gather"
    /\ AllStarted /\ tasks.holders = "largest"
    /\ \E largest_result \in LargestAccountAnswers :
          /\ raw_holders' = FetchedHolders(supply_result, largest_result)
          /\ holder_metrics' = HolderMetricsOf(raw_holders', price_usd)
    /\ tasks' = [tasks EXCEPT !.holders = "done"]
    /\ in_flight' = in_flight \ {Request("holders", "getTokenLargestAccounts")}
    /\ UNCHANGED <<call, pc, supply_result, price_usd, dex_data, volume_momentum,
                   momentum_indicators, scoreVars, riskVars, scalpVars, serviceVars>>

\* the request of analyze_volume_momentum is answered
ReceiveVolumePairs ==
    /\ call = "analyze_token" /\ pc = "gather"
    /\ AllStarted /\ tasks.volume = "pairs"
    /\ \E data \in TokenPairAnswers : volume_momentum' = VolumeMomentumOf(data)
    /\ tasks' = [tasks EXCEPT !.volume = "done"]
    /\ in_flight' = in_flight \ {Request("volume", "token-pairs")}
    /\ UNCHANGED <<call, pc, supply_result, raw_holders, price_usd, dex_data,
                   holder_metrics, momentum_indicators,
                   scoreVars, riskVars, scalpVars, serviceVars>>

\* the request of analyze_momentum_indicators is answered
ReceiveMomentumPairs ==
    /\ call = "analyze_token" /\ pc = "gather"
    /\ AllStarted /\ tasks.momentum = "pairs"
    /\ \E data \in TokenPairAnswers :
          momentum_indicators' = MomentumIndicatorsOf(data, price_usd)
    /\ tasks' = [tasks EXCEPT !.momentum = "done"]
    /\ in_flight' = in_flight \ {Request("momentum", "token-pairs")}
    /\ UNCHANGED <<call, pc, supply_result, raw_holders, price_usd, dex_data,
                   holder_metrics, volume_momentum,
                   scoreVars, riskVars, scalpVars, serviceVars>>

\* asyncio.gather returns once the three analyses have returned
GatherReturns ==
    /\ call = "analyze_token" /\ pc = "gather"
    /\ \A i \in 1..Len(TaskNames) : tasks[TaskNames[i]] = "done"
    /\ pc' = "patterns"
    /\ UNCHANGED <<call, signalVars, riskVars, scalpVars, serviceVars>>

NextSignal ==
    \/ FetchTokenInfo
    \/ ReceiveTokenInfo
    \/ StartHoldersTask
    \/ StartVolumeTask
    \/ StartMomentumTask
    \/ ReceiveTokenSupply
    \/ ReceiveLargestAccounts
    \/ ReceiveVolumePairs
    \/ ReceiveMomentumPairs
    \/ GatherReturns
    \/ DetectPatterns
    \/ AnalyzeHolders
    \/ AnalyzeVolumeMomentum
    \/ AnalyzeMomentumIndicators
    \/ CalculateSmartMoneyScore
    \/ CalculateMomentumScore
    \/ CalculatePatternScore
    \/ GenerateSignal

SpecSignal == InitSignal /\ [][NextSignal]_vars

----------------------------------------------------------------------------
(* properties of the signal scoring, checked under SpecSignal *)

SignalGenerated == call \in {"score_signal", "generate_signal"} /\ pc = "done"

MomentumScored == call = "score_signal" /\ pc \in {"pattern", "signal", "done"}

SpreadOfScores == ScoreSpread(smart_money_score, momentum_score, pattern_score)

\* C6 as stated: the confidence is 85 exactly when the spread of the three
\* sub-scores is at most 20, 55 exactly when the spread is more than 40, and
\* 70 otherwise.
C6_ConfidenceInclusiveBands ==
    SignalGenerated =>
        /\ confidence = 85 <=> FLe(SpreadOfScores, FromInt(20))
        /\ confidence = 55 <=> FGt(SpreadOfScores, FromInt(40))
        /\ confidence \in {85, 70, 55}

\* C6 amended: the confidence is 85 exactly when the spread of the three
\* sub-scores is less than 20, 55 exactly when the spread is at least 40, and
\* 70 otherwise.
C6_ConfidenceBands ==
    SignalGenerated =>
        /\ confidence = 85 <=> FLt(SpreadOfScores, FromInt(20))
        /\ confidence = 55 <=> FGe(SpreadOfScores, FromInt(40))
        /\ confidence \in {85, 70, 55}

\* sub-scores exactly 20 apart get the middle confidence
C6_Witness ==
    /\ SignalGenerated
    /\ FEq(SpreadOfScores, FromInt(20))
    /\ confidence = 70

\* the contribution of the 24h price momentum as C7 states it
PriceMomentumTable(m) ==
    IF FGt(m, FromInt(20)) THEN 15
    ELSE IF FGt(m, FromInt(10)) THEN 10
    ELSE IF FGe(m, FromInt(-10)) THEN 0
    ELSE IF FGe(m, FromInt(-20)) THEN -10
    ELSE -15

\* C7: the momentum score is the clamped sum of the base 50, the volume
\* trend points, net pressure / 5, the RSI points, the trend direction points
\* and, for the 24h price momentum m, +15 when m > 20, +10 when 10 < m <= 20,
\* 0 when -10 <= m <= 10, -10 when -20 <= m < -10 and -15 when m < -20.
C7_PriceMomentumContribution ==
    MomentumScored =>
        momentum_score =
            Clamp(FAdd(FromInt(50 + VolumeTrendPoints(volume_momentum)
                                  + PriceMomentumTable(momentum_indicators.price_momentum_24h)
                                  + RsiPoints(momentum_indicators)
                                  + TrendDirectionPoints(momentum_indicators)),
                       FDiv(volume_momentum.net_pressure, 5)))

InRange(score) == FGe(score, FromInt(0)) /\ FLe(score, FromInt(100))

\* C8: the smart-money score, the momentum score, the pattern score and the
\* combined score each lie in [0,100], whatever bonuses and penalties add up.
C8_ScoresBounded ==
    /\ call = "score_signal" /\ pc \in {"momentum", "pattern", "signal", "done"}
           => InRange(smart_money_score)
    /\ MomentumScored => InRange(momentum_score)
    /\ call = "score_signal" /\ pc \in {"signal", "done"} => InRange(pattern_score)
    /\ SignalGenerated => InRange(combined_score.value)

\* the bonuses of the momentum score add up to more than 100 and the score
\* returned is 100, next to a pattern score of 100
C8_Witness ==
    /\ call = "score_signal" /\ pc = "done"
    /\ FGt(MomentumRawScore(volume_momentum, momentum_indicators), FromInt(100))
    /\ momentum_score = FromInt(100)
    /\ pattern_score = FromInt(100)

\* C9: combined is 0.35 * smart money + 0.40 * momentum + 0.25 * pattern, and
\* the signal is strong_buy iff combined >= 75, buy iff 60 <= combined < 75,
\* hold iff 45 <= combined < 60, sell iff 30 <= combined < 45, strong_sell iff
\* combined < 30: one class for every triple.
C9_SignalClassByThreshold ==
    SignalGenerated =>
        /\ combined_score.value =
               CombinedExact(smart_money_score, momentum_score, pattern_score)
        /\ signal_type = "strong_buy" <=> CombinedGe(combined_score, 75)
        /\ signal_type = "buy" <=>
               CombinedGe(combined_score, 60) /\ ~CombinedGe(combined_score, 75)
        /\ signal_type = "hold" <=>
               CombinedGe(combined_score, 45) /\ ~CombinedGe(combined_score, 60)
        /\ signal_type = "sell" <=>
               CombinedGe(combined_score, 30) /\ ~CombinedGe(combined_score, 45)
        /\ signal_type = "strong_sell" <=> ~CombinedGe(combined_score, 30)
        /\ signal_type \in {"strong_buy", "buy", "hold", "sell", "strong_sell"}

\* a combined score of exactly 60 is a buy
C9_Witness ==
    /\ SignalGenerated
    /\ combined_score = [value |-> FromInt(60), below |-> FALSE]
    /\ signal_type = "buy"

----------------------------------------------------------------------------
(* scripts/scalp_strategy.py: the position size *)

\* position_size_by_risk with the two middle tiers exchanged
PositionSizeTiersSwapped(score) ==
    IF score <= 30 THEN FromInt(3)
    ELSE IF score <= 35 THEN FromInt(2)
    ELSE IF score <= 40 THEN Frac(5, 2)
    ELSE FromInt(1)

\* position_size_by_risk, in percent of the portfolio
PositionSizeByRisk(score) ==
    IF score <= 30 THEN FromInt(3)
    ELSE IF score <= 35 THEN Frac(5, 2)
    ELSE IF score <= 40 THEN FromInt(2)
    ELSE FromInt(1)

\* the overall risk scores a contract analysis carries
RiskScoreValues == 0..100

\* the stop and the three targets of each setup type, in thousandths of the
\* current price; every other setup type is "standard"
SetupFactors(type) ==
    IF type = "pump_continuation"
    THEN [stop_loss |-> 950, tp1 |-> 1020, tp2 |-> 1050, tp3 |-> 1100]
    ELSE IF type = "dip_buy"
    THEN [stop_loss |-> 930, tp1 |-> 1030, tp2 |-> 1080, tp3 |-> 1150]
    ELSE IF type = "range_play"
    THEN [stop_loss |-> 970, tp1 |-> 1015, tp2 |-> 1030, tp3 |-> 1050]
    ELSE IF type = "momentum"
    THEN [stop_loss |-> 960, tp1 |-> 1025, tp2 |-> 1060, tp3 |-> 1120]
    ELSE [stop_loss |-> 960, tp1 |-> 1020, tp2 |-> 1050, tp3 |-> 1100]

\* the "Adjust for risk score" step of calculate_entry_exit with < for <=
RiskAdjustedLevelsStrict(score, lv) ==
    IF score < 30 THEN lv
    ELSE IF score < 40 THEN [lv EXCEPT !.tp3 = lv.tp2]
    ELSE [lv EXCEPT !.tp2 = Times(lv.tp1, 1020), !.tp3 = Times(lv.tp1, 1020)]

\* the "Adjust for risk score" step of calculate_entry_exit
RiskAdjustedLevels(score, lv) ==
    IF score <= 30 THEN lv
    ELSE IF score <= 40 THEN [lv EXCEPT !.tp3 = lv.tp2]
    ELSE [lv EXCEPT !.tp2 = Times(lv.tp1, 1020), !.tp3 = Times(lv.tp1, 1020)]

\* calculate_entry_exit without its early return for a price that is not
\* positive
EntryExitUnguarded(c, type) ==
    LET current_price == DictGet(c, "current_price", FromInt(0))
        score == DictGet(c, "overall_risk_score", 50)
        f == SetupFactors(type)
    IN RiskAdjustedLevels(score,
           [entry |-> current_price,
            stop_loss |-> Times(current_price, f.stop_loss),
            tp1 |-> Times(current_price, f.tp1),
            tp2 |-> Times(current_price, f.tp2),
            tp3 |-> Times(current_price, f.tp3)])

\* calculate_entry_exit
EntryExit(c, type) ==
    LET current_price == DictGet(c, "current_price", FromInt(0))
        score == DictGet(c, "overall_risk_score", 50)
        f == SetupFactors(type)
    IN IF FLe(current_price, FromInt(0)) THEN EmptyDict
       ELSE RiskAdjustedLevels(score,
                [entry |-> current_price,
                 stop_loss |-> Times(current_price, f.stop_loss),
                 tp1 |-> Times(current_price, f.tp1),
                 tp2 |-> Times(current_price, f.tp2),
                 tp3 |-> Times(current_price, f.tp3)])

\* calculate_vol_liq_ratio
VolLiqRatio(volume, liquidity) ==
    IF liquidity <= 0 THEN FromInt(0) ELSE Frac(volume, liquidity)

\* determine_setup_type with the momentum rule tried before the range rule
DetermineSetupTypeMomentumFirst(c) ==
    LET price_change == DictGet(c, "price_change_24h", 0)
        vol_liq == VolLiqRatio(DictGet(c, "volume_24h", 0), DictGet(c, "liquidity_usd", 0))
    IN IF price_change > 50 THEN "pump_continuation"
       ELSE IF price_change < -20 THEN "dip_buy"
       ELSE IF FGt(vol_liq, FromInt(5)) THEN "momentum"
       ELSE IF Abs(price_change) < 10 THEN "range_play"
       ELSE "standard"

\* determine_setup_type
DetermineSetupType(c) ==
    LET price_change == DictGet(c, "price_change_24h", 0)
        vol_liq == VolLiqRatio(DictGet(c, "volume_24h", 0), DictGet(c, "liquidity_usd", 0))
    IN IF price_change > 50 THEN "pump_continuation"
       ELSE IF price_change < -20 THEN "dip_buy"
       ELSE IF Abs(price_change) < 10 THEN "range_play"
       ELSE IF FGt(vol_liq, FromInt(5)) THEN "momentum"
       ELSE "standard"

\* a hold window "low-high unit", with the remark that follows it
Window(low, high, unit, remark) ==
    [low |-> low, high |-> high, unit |-> unit, remark |-> remark]

\* max_hold_time with the setup type tested only on the high risk tier
MaxHoldTimeBaseFirst(score, type) ==
    IF score <= 30 THEN Window(2, 6, "hours", "")
    ELSE IF score <= 40 THEN Window(1, 4, "hours", "")
    ELSE IF type = "pump_continuation"
         THEN Window(15, 45, "minutes", "pump can reverse fast")
    ELSE IF type = "dip_buy"
         THEN Window(2, 8, "hours", "recovery takes time")
    ELSE Window(30, 90, "minutes", "")

\* max_hold_time
MaxHoldTime(score, type) ==
    LET base_time == IF score <= 30 THEN Window(2, 6, "hours", "")
                     ELSE IF score <= 40 THEN Window(1, 4, "hours", "")
                     ELSE Window(30, 90, "minutes", "")
    IN IF type = "pump_continuation"
       THEN Window(15, 45, "minutes", "pump can reverse fast")
       ELSE IF type = "dip_buy"
       THEN Window(2, 8, "hours", "recovery takes time")
       ELSE base_time

SetupTypes == {"pump_continuation", "dip_buy", "range_play", "momentum", "standard"}

\* the risk scores around the tiers of the scalp functions
TierScores == {0, 30, 31, 35, 36, 40, 41, 50, 100}

PriceValues == {FromInt(-1), FromInt(0), Frac(1, 100), FromInt(1), Frac(3, 2), FromInt(250)}

\* the entries of a stored analysis that calculate_entry_exit reads
EntryExitContracts ==
    {EmptyDict}
    \cup {[current_price |-> p] : p \in PriceValues}
    \cup {[current_price |-> p, overall_risk_score |-> r] :
              p \in PriceValues, r \in TierScores}

InitPositionSize ==
    /\ call = "position_size_by_risk"
    /\ pc = "size"
    /\ risk_score \in RiskScoreValues
    /\ contract = Unset /\ setup_type = Unset

InitEntryExit ==
    /\ call = "calculate_entry_exit"
    /\ pc = "levels"
    /\ contract \in EntryExitContracts
    /\ setup_type \in SetupTypes
    /\ risk_score = Unset

InitMaxHoldTime ==
    /\ call = "max_hold_time"
    /\ pc = "hold"
    /\ risk_score \in RiskScoreValues
    /\ setup_type \in SetupTypes
    /\ contract = Unset

\* calculate_vol_liq_ratio(volume, liquidity), the arguments being the
\* volume_24h and liquidity_usd of a stored analysis
InitVolLiqRatio ==
    /\ call = "calculate_vol_liq_ratio"
    /\ pc = "ratio"
    /\ contract \in [volume_24h : VolumeValues, liquidity_usd : LiquidityValues \cup {-1}]
    /\ setup_type = Unset
    /\ risk_score = Unset

\* 24h price changes on both sides of the tests of determine_setup_type
SetupPriceChanges == {-100, -21, -20, -19, -11, -10, -9, 0, 9, 10, 11, 50, 51, 100}

\* the entries of a stored analysis that determine_setup_type reads
SetupTypeContracts ==
    {EmptyDict}
    \cup {[price_change_24h |-> c] : c \in SetupPriceChanges}
    \cup [price_change_24h : SetupPriceChanges, volume_24h : {0, 5000, 5001, 60000},
          liquidity_usd : {-1, 0, 1000, 10000}]

InitSetupType ==
    /\ call = "determine_setup_type"
    /\ pc = "type"
    /\ contract \in SetupTypeContracts
    /\ setup_type = Unset
    /\ risk_score = Unset

\* the rows of contract_analysis that generate_setup may read: one market
\* situation for each setup type, every price and risk tier
StoredAnalyses ==
    [current_price : PriceValues, overall_risk_score : TierScores,
     price_change_24h : {-21, 0, 10, 51}, volume_24h : {60000},
     liquidity_usd : {0, 1000}]

\* generate_setup(contract_address); EmptyDict stands for the None that
\* get_analysis returns when the address has no row (`not contract` holds
\* of both)
InitGenerateSetup ==
    /\ call = "generate_setup"
    /\ pc = "setup"
    /\ contract \in {EmptyDict} \cup StoredAnalyses
    /\ setup_type = Unset
    /\ risk_score = Unset

InitScalp ==
    /\ \/ InitPositionSize
       \/ InitGenerateSetup \/ InitEntryExit \/ InitMaxHoldTime \/ InitVolLiqRatio
       \/ InitSetupType
    /\ position_size_pct = Unset /\ levels = Unset
    /\ hold_time = Unset /\ setup_vol_liq_ratio = Unset
    /\ IdleRisk
    /\ IdleSignal
    /\ IdleApi /\ IdleTrades

SizePosition ==
    /\ call = "position_size_by_risk" /\ pc = "size"
    /\ position_size_pct' = PositionSizeByRisk(risk_score)
    /\ pc' = "done"
    /\ UNCHANGED <<call, risk_score, contract, setup_type, levels, hold_time,
                   setup_vol_liq_ratio, riskVars, signalVars, serviceVars>>

CalculateEntryExit ==
    /\ call = "calculate_entry_exit" /\ pc = "levels"
    /\ levels' = EntryExit(contract, setup_type)
    /\ pc' = "done"
    /\ UNCHANGED <<call, risk_score, contract, setup_type, position_size_pct,
                   hold_time, setup_vol_liq_ratio, riskVars, signalVars, serviceVars>>

CalculateMaxHoldTime ==
    /\ call = "max_hold_time" /\ pc = "hold"
    /\ hold_time' = MaxHoldTime(risk_score, setup_type)
    /\ pc' = "done"
    /\ UNCHANGED <<call, risk_score, contract, setup_type, position_size_pct,
                   levels, setup_vol_liq_ratio, riskVars, signalVars, serviceVars>>

CalculateVolLiqRatio ==
    /\ call = "calculate_vol_liq_ratio" /\ pc = "ratio"
    /\ setup_vol_liq_ratio' = VolLiqRatio(contract.volume_24h, contract.liquidity_usd)
    /\ pc' = "done"
    /\ UNCHANGED <<call, risk_score, contract, setup_type, position_size_pct,
                   levels, hold_time, riskVars, signalVars, serviceVars>>

DetermineType ==
    /\ call = "determine_setup_type" /\ pc = "type"
    /\ setup_type' = DetermineSetupType(contract)
    /\ pc' = "done"
    /\ UNCHANGED <<call, risk_score, contract, position_size_pct, levels,
                   hold_time, setup_vol_liq_ratio, riskVars, signalVars, serviceVars>>

\* generate_setup: None without a stored analysis or without levels,
\* otherwise the ScalpSetup (its type, levels, ratio, size and hold time)
GenerateSetup ==
    /\ call = "generate_setup" /\ pc = "setup"
    /\ IF contract = EmptyDict
       THEN /\ pc' = "none"
            /\ UNCHANGED <<risk_score, setup_type, levels, position_size_pct,
                           hold_time, setup_vol_liq_ratio>>
       ELSE LET type == DetermineSetupType(contract)
                lv == EntryExit(contract, type)
                score == DictGet(contract, "overall_risk_score", 50)
            IN /\ setup_type' = type
               /\ levels' = lv
               /\ IF lv = EmptyDict
                  THEN /\ pc' = "none"
                       /\ UNCHANGED <<risk_score, position_size_pct, hold_time,
                                      setup_vol_liq_ratio>>
                  ELSE /\ pc' = "done"
                       /\ risk_score' = score
                       /\ setup_vol_liq_ratio' =
                              VolLiqRatio(DictGet(contract, "volume_24h", 0),
                                          DictGet(contract, "liquidity_usd", 0))
                       /\ position_size_pct' = PositionSizeByRisk(score)
                       /\ hold_time' = MaxHoldTime(score, type)
    /\ UNCHANGED <<call, contract, riskVars, signalVars, serviceVars>>

NextScalp ==
    \/ GenerateSetup
    \/ DetermineType
    \/ CalculateVolLiqRatio
    \/ SizePosition
    \/ CalculateEntryExit
    \/ CalculateMaxHoldTime

SpecScalp == InitScalp /\ [][NextScalp]_vars

----------------------------------------------------------------------------
(* properties of the trade setup, checked under SpecScalp *)

PositionSized == call = "position_size_by_risk" /\ pc = "done"

\* C10: the position size is 3% for a risk score up to 30, 2.5% for 31..35,
\* 2% for 36..40 and 1% above 40, and no higher risk score up to 100 gets a
\* larger size than a lower one.
C10_PositionSizeNonIncreasing ==
    PositionSized =>
        /\ risk_score <= 30 => position_size_pct = FromInt(3)
        /\ risk_score \in 31..35 => position_size_pct = Frac(5, 2)
        /\ risk_score \in 36..40 => position_size_pct = FromInt(2)
        /\ risk_score > 40 => position_size_pct = FromInt(1)
        /\ \A r2 \in RiskScoreValues :
               risk_score <= r2 => FGe(position_size_pct, PositionSizeByRisk(r2))

\* the last score of the 2.5% tier
C10_Witness ==
    /\ PositionSized
    /\ risk_score = 35
    /\ position_size_pct = Frac(5, 2)

EntryExitDone == call = "calculate_entry_exit" /\ pc = "done"

ContractPrice == DictGet(contract, "current_price", FromInt(0))

ContractRisk == DictGet(contract, "overall_risk_score", 50)

\* C11: for a current price > 0, entry, stop-loss and take-profit-1 are the
\* setup type's fixed multiples of the price whatever the risk score; with
\* risk <= 30 so are take-profit-2 and take-profit-3; with risk 31..40
\* take-profit-2 is unchanged and take-profit-3 equals it; with risk > 40
\* take-profit-2 and take-profit-3 both equal 1.02 x take-profit-1.
C11_RiskTierTargets ==
    EntryExitDone /\ FGt(ContractPrice, FromInt(0)) =>
        LET f == SetupFactors(setup_type)
        IN /\ levels.entry = ContractPrice
           /\ levels.stop_loss = Times(ContractPrice, f.stop_loss)
           /\ levels.tp1 = Times(ContractPrice, f.tp1)
           /\ ContractRisk <= 30 =>
                  /\ levels.tp2 = Times(ContractPrice, f.tp2)
                  /\ levels.tp3 = Times(ContractPrice, f.tp3)
           /\ ContractRisk \in 31..40 =>
                  /\ levels.tp2 = Times(ContractPrice, f.tp2)
                  /\ levels.tp3 = levels.tp2
           /\ ContractRisk > 40 =>
                  /\ levels.tp2 = Times(levels.tp1, 1020)
                  /\ levels.tp3 = levels.tp2

\* a dip buy at 3/2 with risk 41: the two upper targets are 1.02 x 1.03 x 3/2
C11_Witness ==
    /\ EntryExitDone
    /\ setup_type = "dip_buy"
    /\ ContractPrice = Frac(3, 2)
    /\ ContractRisk = 41
    /\ levels.tp2 = Frac(157590, 100000)
    /\ levels.tp3 = levels.tp2

HoldTimeDone == call = "max_hold_time" /\ pc = "done"

PumpWindow == Window(15, 45, "minutes", "pump can reverse fast")

\* C12 as stated: for every setup type other than pump_continuation the hold
\* time is a window of hours when risk <= 40 and a window of at most 90
\* minutes when risk > 40; for pump_continuation it is the 15-45 minute
\* window for every risk score.
C12_HoldTimeTieredButPump ==
    HoldTimeDone =>
        IF setup_type = "pump_continuation"
        THEN hold_time = PumpWindow
        ELSE /\ risk_score <= 40 => hold_time.unit = "hours"
             /\ risk_score > 40 =>
                    hold_time.unit = "minutes" /\ hold_time.high <= 90

\* C12 amended: the hold time is tiered so for every setup type other than
\* pump_continuation and dip_buy; pump_continuation gets the 15-45 minute
\* window and dip_buy the 2-8 hour window for every risk score.
C12_HoldTimeTieredButPumpAndDip ==
    HoldTimeDone =>
        IF setup_type = "pump_continuation"
        THEN hold_time = PumpWindow
        ELSE IF setup_type = "dip_buy"
        THEN hold_time = Window(2, 8, "hours", "recovery takes time")
        ELSE /\ risk_score <= 40 => hold_time.unit = "hours"
             /\ risk_score > 40 =>
                    hold_time.unit = "minutes" /\ hold_time.high <= 90

\* a dip buy on a token of risk 41 is held for hours
C12_Witness ==
    /\ HoldTimeDone
    /\ setup_type = "dip_buy"
    /\ risk_score = 41
    /\ hold_time.unit = "hours"

HoldersAnalysed == call = "analyze_holders" /\ pc = "done"

\* the combined percent held by the first ten raw holders
RECURSIVE SumOfShares(_, _)
SumOfShares(list, n) ==
    IF n = 0 \/ list = <<>> THEN FromInt(0)
    ELSE FAdd(Head(list).percent_held, SumOfShares(Tail(list), n - 1))

\* C15: for every holder list, the empty list included, concentration_risk
\* is high iff the first ten holders together hold more than 50 percent,
\* medium iff they hold more than 30 and at most 50, and low otherwise.
C15_ConcentrationRiskEnum ==
    HoldersAnalysed =>
        LET top_10_pct == SumOfShares(raw_holders, 10)
        IN /\ holder_metrics.concentration_risk \in {"low", "medium", "high"}
           /\ holder_metrics.concentration_risk = "high" <=> FGt(top_10_pct, FromInt(50))
           /\ holder_metrics.concentration_risk = "medium" <=>
                  FGt(top_10_pct, FromInt(30)) /\ FLe(top_10_pct, FromInt(50))

\* the analysed holders that are smart money and hold more than $10,000
LargeSmartHolders ==
    {i \in 1..Min(Len(raw_holders), 20) :
        /\ FGe(raw_holders[i].percent_held, Frac(1, 2))
        /\ FGe(FMul(raw_holders[i].balance, price_usd), FromInt(5000))
        /\ FGt(FMul(raw_holders[i].balance, price_usd), FromInt(10000))}

\* C16: analyze_holders never reports selling; it reports buying iff at
\* least three of the first twenty holders are smart money holding more than
\* $10,000 each; the net flow is 1 when buying and 0 otherwise.
C16_SmartMoneyFlow ==
    HoldersAnalysed =>
        /\ holder_metrics.smart_money_selling = FALSE
        /\ holder_metrics.smart_money_buying <=> Cardinality(LargeSmartHolders) >= 3
        /\ holder_metrics.smart_money_net_flow =
               IF holder_metrics.smart_money_buying THEN 1 ELSE 0

\* exactly three large smart-money wallets: buying, net flow 1
C16_Witness ==
    /\ HoldersAnalysed
    /\ Cardinality(LargeSmartHolders) = 3
    /\ holder_metrics.smart_money_buying
    /\ holder_metrics.smart_money_net_flow = 1

IndicatorsAnalysed ==
    call = "analyze_momentum_indicators" /\ pc = "done" /\ dex_data # <<>>

\* the 24h price change of the main pair
MainPairChange24h ==
    DictGet(DictGet(dex_data[1], "priceChange", EmptyDict), "h24", FromInt(0))

\* C17: for every 24h price change c the RSI returned is in [0,100] and is
\* 70 + min(c/2, 25) when c > 10, 30 - min(|c|/2, 25) when c < -10 and
\* 50 + c otherwise, and the label is oversold iff the RSI is below 30,
\* overbought iff it is above 70, neutral otherwise.
C17_RsiValueAndLabel ==
    IndicatorsAnalysed =>
        LET c == MainPairChange24h
            rsi == momentum_indicators.rsi_14
        IN /\ InRange(rsi)
           /\ FGt(c, FromInt(10)) =>
                  rsi = FAdd(FromInt(70), FMin(FDiv(c, 2), FromInt(25)))
           /\ FLt(c, FromInt(-10)) =>
                  rsi = FSub(FromInt(30), FMin(FDiv(FAbs(c), 2), FromInt(25)))
           /\ FGe(c, FromInt(-10)) /\ FLe(c, FromInt(10)) => rsi = FAdd(FromInt(50), c)
           /\ momentum_indicators.rsi_trend = "oversold" <=> FLt(rsi, FromInt(30))
           /\ momentum_indicators.rsi_trend = "overbought" <=> FGt(rsi, FromInt(70))
           /\ momentum_indicators.rsi_trend \in {"oversold", "neutral", "overbought"}

\* a price that doubled: the half change is capped at 25, the RSI is 95
C17_Witness ==
    /\ IndicatorsAnalysed
    /\ MainPairChange24h = FromInt(100)
    /\ momentum_indicators.rsi_14 = FromInt(95)
    /\ momentum_indicators.rsi_trend = "overbought"

PatternsDetected == call = "detect_chart_patterns" /\ pc = "done"

\* how often a pattern type occurs in the detected list
Occurrences(type) ==
    Cardinality({i \in 1..Len(detected_patterns) :
                    detected_patterns[i].pattern_type = type})

\* C18: the five rules are independent: each pattern is in the output iff
\* its own condition holds, whatever the other rules found, and at most once.
C18_IndependentPatternRules ==
    PatternsDetected =>
        LET m == momentum_indicators
            v == volume_momentum
        IN /\ Occurrences("breakout") =
                  IF /\ m.trend_direction = "up" /\ v.volume_trend = "spiking"
                     /\ FGt(m.price_momentum_24h, FromInt(10))
                  THEN 1 ELSE 0
           /\ Occurrences("accumulation") =
                  IF FGt(v.accumulation_score, FromInt(70)) /\ m.rsi_trend = "oversold"
                  THEN 1 ELSE 0
           /\ Occurrences("consolidation") =
                  IF m.trend_direction = "sideways" /\ v.volume_trend = "decreasing"
                  THEN 1 ELSE 0
           /\ Occurrences("distribution") =
                  IF FGt(v.distribution_score, FromInt(70)) /\ m.rsi_trend = "overbought"
                  THEN 1 ELSE 0
           /\ Occurrences("breakdown") =
                  IF m.trend_direction = "down" /\ v.volume_trend = "spiking"
                  THEN 1 ELSE 0

\* a breakout and an accumulation are both detected
C18_Witness ==
    /\ PatternsDetected
    /\ Len(detected_patterns) = 2
    /\ Occurrences("breakout") = 1
    /\ Occurrences("accumulation") = 1

\* C20: while analyze_token analyses one token address there is at most one
\* request for the same data of that address outstanding at any time: no
\* two requests in flight are for the same endpoint, in particular not two
\* of the holder, volume-momentum and momentum-indicator analyses that the
\* gather runs together.
C20_AtMostOneFetchInFlight ==
    call = "analyze_token" =>
        \A r1, r2 \in in_flight : r1.endpoint = r2.endpoint => r1 = r2

\* the priceChange entry of the main pair
MainPairPriceChange == DictGet(dex_data[1], "priceChange", EmptyDict)

\* C21: the trend is up iff the 24h change is above 5 and the 7d change is
\* above 0 or unavailable, down iff the 24h change is below -5 and the 7d
\* change is below 0 or unavailable, sideways otherwise (also when the 7d
\* change is reported as exactly 0); the strength is min(3 |24h change|, 100)
\* for up and down and 20 for sideways.
C21_TrendClassification ==
    IndicatorsAnalysed =>
        LET c == MainPairChange24h
            unavailable == "h7" \notin DOMAIN MainPairPriceChange
            w == DictGet(MainPairPriceChange, "h7", FromInt(0))
            up == FGt(c, FromInt(5)) /\ (unavailable \/ FGt(w, FromInt(0)))
            down == FLt(c, FromInt(-5)) /\ (unavailable \/ FLt(w, FromInt(0)))
            trend == momentum_indicators.trend_direction
        IN /\ trend = "up" <=> up
           /\ trend = "down" <=> down
           /\ trend = "sideways" <=> ~up /\ ~down
           /\ momentum_indicators.trend_strength =
                  IF trend = "sideways" THEN FromInt(20)
                  ELSE FMin(FMul(3, FAbs(c)), FromInt(100))

PatternScored ==
    call \in {"score_signal", "analyze_token"} /\ pc \in {"signal", "done"}

\* the confidences of the detected patterns of the given types, summed
RECURSIVE ConfidenceTotal(_, _)
ConfidenceTotal(i, types) ==
    IF i = 0 THEN FromInt(0)
    ELSE FAdd(IF detected_patterns[i].pattern_type \in types
              THEN detected_patterns[i].confidence ELSE FromInt(0),
              ConfidenceTotal(i - 1, types))

\* how many detected patterns are of the given types
CountOfTypes(types) ==
    Cardinality({i \in 1..Len(detected_patterns) :
                    detected_patterns[i].pattern_type \in types})

\* C22: the pattern score is 50 for a list that is empty or holds only
\* consolidation, 50 + (mean bullish confidence)/2 with bullish and no
\* bearish patterns, 50 - (mean bearish confidence)/2 with bearish and no
\* bullish patterns, 50 + (mean bullish - mean bearish)/2 with both, and
\* is the score of the list without its consolidation patterns.
C22_PatternScoreConflict ==
    PatternScored =>
        LET bull == {"breakout", "accumulation"}
            bear == {"breakdown", "distribution"}
            nb == CountOfTypes(bull)
            nr == CountOfTypes(bear)
            sb == ConfidenceTotal(Len(detected_patterns), bull)
            sr == ConfidenceTotal(Len(detected_patterns), bear)
            excess == FSub(pattern_score, FromInt(50))
        IN /\ nb = 0 /\ nr = 0 => pattern_score = FromInt(50)
           /\ nb > 0 /\ nr = 0 => FEq(FMul(2 * nb, excess), sb)
           /\ nb = 0 /\ nr > 0 => FEq(FMul(2 * nr, excess), FSub(FromInt(0), sr))
           /\ nb > 0 /\ nr > 0 =>
                  FEq(FMul(2 * nb * nr, excess), FSub(FMul(nr, sb), FMul(nb, sr)))
           /\ pattern_score =
                  PatternScore(SelectSeq(detected_patterns,
                                         LAMBDA p : p.pattern_type # "consolidation"))

\* a breakout at 100 against a breakdown at 35, next to a consolidation:
\* 50 + (100 - 35)/2
C22_Witness ==
    /\ PatternScored
    /\ CountOfTypes({"breakout"}) = 1
    /\ CountOfTypes({"breakdown"}) = 1
    /\ CountOfTypes({"consolidation"}) = 1
    /\ ConfidenceTotal(Len(detected_patterns), {"breakout"}) = FromInt(100)
    /\ ConfidenceTotal(Len(detected_patterns), {"breakdown"}) = FromInt(35)
    /\ pattern_score = Frac(165, 2)

SetupTypeDone == call = "determine_setup_type" /\ pc = "done"

\* C23: the rules are applied in a fixed order, the first that matches
\* wins: pump_continuation for a change above 50, else dip_buy below -20,
\* else range_play for |change| < 10, else momentum for a guarded
\* volume/liquidity ratio above 5, else standard; so momentum needs
\* 10 <= |change|, -20 <= change <= 50 and a liquidity that is not 0.
C23_SetupTypePriority ==
    SetupTypeDone =>
        LET change == DictGet(contract, "price_change_24h", 0)
            volume == DictGet(contract, "volume_24h", 0)
            liquidity == DictGet(contract, "liquidity_usd", 0)
            ratio_above_5 == liquidity > 0 /\ volume > 5 * liquidity
        IN /\ setup_type = "pump_continuation" <=> change > 50
           /\ setup_type = "dip_buy" <=> change < -20
           /\ setup_type = "range_play" <=> (-10 < change /\ change < 10)
           /\ setup_type = "momentum" <=>
                  /\ -20 <= change /\ change <= 50
                  /\ (change <= -10 \/ change >= 10)
                  /\ ratio_above_5
           /\ setup_type = "standard" <=>
                  /\ -20 <= change /\ change <= 50
                  /\ (change <= -10 \/ change >= 10)
                  /\ ~ratio_above_5
           /\ setup_type = "momentum" => liquidity # 0

\* a quiet price with a ratio of 60 is a range play, not momentum
C23_Witness ==
    /\ SetupTypeDone
    /\ DictGet(contract, "price_change_24h", 0) = 9
    /\ DictGet(contract, "volume_24h", 0) = 60000
    /\ DictGet(contract, "liquidity_usd", 0) = 1000
    /\ setup_type = "range_play"

\* calculate_entry_exit has returned, by itself or inside generate_setup
LevelsComputed ==
    \/ call = "calculate_entry_exit" /\ pc = "done"
    \/ call = "generate_setup" /\ pc \in {"none", "done"} /\ contract # EmptyDict

\* C26: for a current price > 0, every setup type and every risk score the
\* levels satisfy stop_loss < entry = price < tp1 <= tp2 <= tp3; for a
\* price <= 0 there are no levels and generate_setup returns no setup.
C26_LevelsOrdered ==
    /\ LevelsComputed /\ FGt(ContractPrice, FromInt(0)) =>
           /\ FLt(levels.stop_loss, levels.entry)
           /\ levels.entry = ContractPrice
           /\ FLt(levels.entry, levels.tp1)
           /\ FLe(levels.tp1, levels.tp2)
           /\ FLe(levels.tp2, levels.tp3)
           /\ call = "generate_setup" => pc = "done"
    /\ LevelsComputed /\ FLe(ContractPrice, FromInt(0)) =>
           /\ levels = EmptyDict
           /\ call = "generate_setup" => pc = "none"

\* generate_setup for a range play at 1/100 with risk 41: the upper targets
\* are 1.02 x 1.015 of the price
C26_Witness ==
    /\ call = "generate_setup" /\ pc = "done"
    /\ setup_type = "range_play"
    /\ ContractPrice = Frac(1, 100) /\ ContractRisk = 41
    /\ levels.tp1 = Frac(1015, 100000)
    /\ levels.tp2 = Frac(10353, 1000000)
    /\ levels.tp3 = levels.tp2

\* the levels of the same contract and setup type at another risk score
LevelsAtRisk(score) ==
    EntryExit([k \in DOMAIN contract \cup {"overall_risk_score"} |->
                  IF k = "overall_risk_score" THEN score ELSE contract[k]],
              setup_type)

\* C27: the risk tiers only tighten the targets: for every setup type, every
\* price > 0 and any two risk scores r1 <= r2, each of the three
\* take-profits at r2 is at most the same take-profit at r1.
C27_RiskOnlyTightens ==
    EntryExitDone /\ FGt(ContractPrice, FromInt(0)) =>
        \A r2 \in TierScores :
            ContractRisk <= r2 =>
                /\ FLe(LevelsAtRisk(r2).tp1, levels.tp1)
                /\ FLe(LevelsAtRisk(r2).tp2, levels.tp2)
                /\ FLe(LevelsAtRisk(r2).tp3, levels.tp3)

\* analyze_volume_momentum has returned, by itself or in analyze_token
VolumeAnalysed ==
    \/ call = "analyze_volume_momentum" /\ pc = "done"
    \/ call = "analyze_token" /\ pc = "gather" /\ tasks.volume = "done"

\* analyze_token has detected its patterns
TokenPatternsDetected ==
    call = "analyze_token" /\ pc \in {"smart_money", "momentum", "pattern", "signal", "done"}

\* C24: for every answer the buy and the sell pressure sum to 100 and the
\* net pressure is in [-20, 20], so the accumulation and the distribution
\* score are both 50 and analyze_token never detects an accumulation or a
\* distribution pattern.
C24_PressureBalanced ==
    /\ VolumeAnalysed =>
           /\ FAdd(volume_momentum.buy_pressure, volume_momentum.sell_pressure) = FromInt(100)
           /\ FGe(volume_momentum.net_pressure, FromInt(-20))
           /\ FLe(volume_momentum.net_pressure, FromInt(20))
           /\ ~volume_momentum.net_rounds_beyond
           /\ volume_momentum.accumulation_score = FromInt(50)
           /\ volume_momentum.distribution_score = FromInt(50)
    /\ TokenPatternsDetected =>
           \A i \in 1..Len(detected_patterns) :
               detected_patterns[i].pattern_type \notin {"accumulation", "distribution"}

\* analyze_volume_momentum has returned for a token with exactly one pair
SinglePairAnalysed ==
    call = "analyze_volume_momentum" /\ pc = "done" /\ Len(dex_data) = 1

\* C30: for a token with exactly one pair the volume ratio is below 2, and
\* is exactly 1 when no volume is reported, so the trend is never spiking
\* and, whatever the momentum indicators, neither a breakout nor a breakdown
\* is detected.
C30_SinglePairNeverSpikes ==
    SinglePairAnalysed =>
        /\ FLt(volume_momentum.volume_ratio, FromInt(2))
        /\ (PairVolume(dex_data[1], "h6") = 0 /\ PairVolume(dex_data[1], "h24") = 0)
               => volume_momentum.volume_ratio = FromInt(1)
        /\ volume_momentum.volume_trend # "spiking"
        /\ ~volume_momentum.unusual_activity
        /\ \A momentum \in PatternMomentumValues :
               LET found == DetectChartPatterns(momentum, volume_momentum, Frac(3, 2))
               IN \A i \in 1..Len(found) :
                      found[i].pattern_type \notin {"breakout", "breakdown"}

\* one pair with a 6h volume of 1 and a 24h volume of 30: the ratio is
\* 30 / 15.5, the trend increasing
C30_Witness ==
    /\ SinglePairAnalysed
    /\ PairVolume(dex_data[1], "h6") = 1
    /\ PairVolume(dex_data[1], "h24") = 30
    /\ volume_momentum.volume_ratio = Frac(60, 31)
    /\ volume_momentum.volume_trend = "increasing"

TokenSignalled == call = "analyze_token" /\ pc = "done"

\* C25: the combined score that analyze_token derives from its own
\* analyses is at least 30, so strong_sell is never emitted; the signal is
\* one of the other four classes.
C25_NeverStrongSell ==
    TokenSignalled =>
        /\ CombinedGe(combined_score, 30)
        /\ signal_type # "strong_sell"
        /\ signal_type \in {"strong_buy", "buy", "hold", "sell"}

\* the lowest scores the analyses can give: concentrated holders without
\* smart money (40), volume drying up under selling and a falling price (26)
\* and no pattern (50) combine to 36.9, a sell
C25_Witness ==
    /\ TokenSignalled
    /\ smart_money_score = FromInt(40)
    /\ momentum_score = FromInt(26)
    /\ pattern_score = FromInt(50)
    /\ combined_score.value = Frac(369, 10)
    /\ signal_type = "sell"

(***************************************************************************)
(* api/signals.py: the signals endpoint.  One handler.do_GET serves one    *)
(* request; the module-level cache outlives the requests.  A signal is     *)
(* the dict of signal_to_dict, of which the token, the class and the       *)
(* combined score are kept; scores are whole numbers.                      *)
(***************************************************************************)

CacheDuration == 30

\* MOCK_SIGNALS
MockSignals ==
    << [token_address |-> "BONK", signal_type |-> "strong_buy", combined_score |-> 82],
       [token_address |-> "SOL", signal_type |-> "strong_buy", combined_score |-> 85],
       [token_address |-> "PEPE", signal_type |-> "buy", combined_score |-> 76],
       [token_address |-> "JUP", signal_type |-> "buy", combined_score |-> 74] >>

\* list[:limit]; a negative limit drops the last -limit elements
SliceTo(list, limit) ==
    IF limit >= 0 THEN SubSeq(list, 1, Min(Len(list), limit))
    ELSE SubSeq(list, 1, Max(Len(list) + limit, 0))

\* find_opportunities: the scanned signals that reach min_score and are buys
Opportunities(signals, min_score) ==
    SelectSeq(signals, LAMBDA s : /\ s.combined_score >= min_score
                                  /\ s.signal_type \in {"buy", "strong_buy"})

\* get_signals_with_agent: [] when the agent is missing or raises
SignalsWithAgent(outcome, signals, min_score, limit) ==
    IF outcome = "scanned"
    THEN SliceTo(Opportunities(signals, min_score), limit)
    ELSE <<>>

\* the signals scan_watchlist can return for the trending tokens
MaxScanned == 2

ScannedSignals ==
    { [token_address |-> "WIF", signal_type |-> "buy", combined_score |-> 65],
      [token_address |-> "RAY", signal_type |-> "strong_buy", combined_score |-> 90],
      [token_address |-> "ORCA", signal_type |-> "hold", combined_score |-> 70] }

ScanResults == UNION {[1..n -> ScannedSignals] : n \in 0..MaxScanned}

\* the refresh: the agent scans, raises, or could not be imported
RefreshOutcomes == {"scanned", "raises", "unavailable"}

MinScores == {60, 80}

Limits == {-1, 0, 1, 2}

\* the seconds between two readings of the clock, and the last reading
TickSeconds == 20

MaxClock == 1160

\* the module is loaded: no cache yet.  The cache is None or a list that is
\* not empty (line 258); <<>> stands for None
InitApi ==
    /\ call = "do_GET" /\ pc = "listening"
    /\ signals_cache = <<>>
    /\ cache_time = 0
    /\ wall_clock = 1000
    /\ request = EmptyDict
    /\ response = EmptyDict
    /\ IdleRisk /\ IdleSignal /\ IdleScalp /\ IdleTrades

\* the wall clock advances between requests
TimePasses ==
    /\ call = "do_GET"
    /\ wall_clock + TickSeconds <= MaxClock
    /\ wall_clock' = wall_clock + TickSeconds
    /\ UNCHANGED <<call, pc, signals_cache, cache_time, request, response,
                   riskVars, signalVars, scalpVars, tradeVars>>

\* handler.do_GET
DoGet ==
    /\ call = "do_GET"
    /\ \E min_score \in MinScores, limit \in Limits,
          outcome \in RefreshOutcomes, scanned \in ScanResults :
        LET current_time == wall_clock
            stale == signals_cache = <<>>
                        \/ current_time - cache_time > CacheDuration
            real_signals == IF stale
                            THEN SignalsWithAgent(outcome, scanned, min_score, limit)
                            ELSE <<>>
            refreshed == real_signals # <<>>
            cache == IF refreshed THEN real_signals ELSE signals_cache
            signals_data == IF refreshed THEN real_signals
                            ELSE IF cache # <<>> THEN cache
                            ELSE SelectSeq(MockSignals,
                                     LAMBDA s : s.combined_score >= min_score)
            sent == SliceTo(signals_data, limit)
        IN /\ signals_cache' = cache
           /\ cache_time' = IF refreshed THEN current_time ELSE cache_time
           /\ request' = [min_score |-> min_score, limit |-> limit]
           /\ response' = [success |-> TRUE, count |-> Len(sent),
                           using_real_data |-> refreshed, signals |-> sent]
    /\ pc' = "responded"
    /\ UNCHANGED <<call, wall_clock, riskVars, signalVars, scalpVars, tradeVars>>

NextApi ==
    \/ DoGet
    \/ TimePasses

SpecApi == InitApi /\ [][NextApi]_vars

Responded == call = "do_GET" /\ pc = "responded"

\* C28: every signal in a response has a combined score of at least the
\* request's min_score, and for a limit that is not negative the response
\* holds at most limit signals, whether they come from a fresh fetch, from
\* the cache or from the mock signals.
C28_ResponseHonoursRequest ==
    Responded =>
        /\ \A i \in 1..Len(response.signals) :
              response.signals[i].combined_score >= request.min_score
        /\ request.limit >= 0 => Len(response.signals) <= request.limit


(***************************************************************************)
(* scripts/trade_executor.py: TradeExecutor.  The executed trades and the  *)
(* trade history are the lists kept in executed_trades.json and            *)
(* trade_history.json; the timestamps of the entries are left out.         *)
(***************************************************************************)

MaxPending == 2

MaxTrades == 2

MaxHistory == 3

\* the signals of today's signals file
PendingSignals ==
    { [token_symbol |-> "BONK"], [token_symbol |-> "JUP"] }

PendingLists == UNION {[1..n -> PendingSignals] : n \in 0..MaxPending}

\* the arguments of close_trade
ExitPrices == {2, 3}

PnlValues == {-1, 1}

\* TradeExecutor(): no trade was recorded before
InitTrades ==
    /\ call = "trade_executor" /\ pc = "ready"
    /\ pending_signals \in PendingLists
    /\ executed_trades = <<>>
    /\ trade_history = <<>>
    /\ IdleRisk /\ IdleSignal /\ IdleScalp /\ IdleApi

\* list[index] for an index that is in range: a negative index counts from
\* the end
ListItem(list, index) ==
    IF index >= 0 THEN list[index + 1] ELSE list[Len(list) + index + 1]

\* execute_trade(signal_index)
ExecuteTrade ==
    /\ call = "trade_executor"
    /\ Len(executed_trades) < MaxTrades
    /\ \E signal_index \in -1..MaxPending :
        IF pending_signals = <<>> \/ signal_index >= Len(pending_signals)
        THEN UNCHANGED executed_trades
        ELSE executed_trades' =
                 Append(executed_trades,
                        [signal |-> ListItem(pending_signals, signal_index),
                         status |-> "open"])
    /\ UNCHANGED <<call, pc, pending_signals, trade_history,
                   riskVars, signalVars, scalpVars, apiVars>>

\* _update_daily_tracker(pnl_sol)
UpdateDailyTracker(history, pnl_sol) == Append(history, [pnl_sol |-> pnl_sol])

\* close_trade(index, exit_price, pnl_sol)
CloseTrade ==
    /\ call = "trade_executor"
    /\ Len(trade_history) < MaxHistory
    /\ \E index \in -2..MaxTrades, exit_price \in ExitPrices, pnl_sol \in PnlValues :
        LET at == IF index = -1 THEN Len(executed_trades) - 1 ELSE index
        IN IF executed_trades = <<>> \/ at < 0 \/ at >= Len(executed_trades)
           THEN UNCHANGED <<executed_trades, trade_history>>
           ELSE /\ executed_trades' =
                       [executed_trades EXCEPT ![at + 1] =
                           [signal |-> @.signal, status |-> "closed",
                            exit_price |-> exit_price, pnl_sol |-> pnl_sol]]
                /\ trade_history' = UpdateDailyTracker(trade_history, pnl_sol)
    /\ UNCHANGED <<call, pc, pending_signals,
                   riskVars, signalVars, scalpVars, apiVars>>

NextTrades ==
    \/ ExecuteTrade
    \/ CloseTrade

SpecTrades == InitTrades /\ [][NextTrades]_vars

\* the trades that have been closed
ClosedTrades ==
    {i \in 1..Len(executed_trades) : executed_trades[i].status = "closed"}

\* one P&L entry per closed trade
HistoryCountsClosedTrades ==
    call = "trade_executor" => Len(trade_history) = Cardinality(ClosedTrades)

\* no trade is dropped or reopened, and a closed trade stays as it is
ClosedTradeStays ==
    call = "trade_executor" =>
        \A i \in 1..Len(executed_trades) :
            /\ i <= Len(executed_trades')
            /\ executed_trades[i].status = "closed" =>
                  /\ executed_trades'[i] = executed_trades[i]
                  /\ trade_history' = trade_history

\* C29: a trade's status moves only from open to closed and only once,
\* closing a trade that is already closed changes neither the trade nor
\* the history, and the trade history holds one P&L entry per closed trade.
C29_TradeClosedOnce ==
    /\ []HistoryCountsClosedTrades
    /\ [][ClosedTradeStays]_vars


====
